---- MODULE Spec2Model ----
(***************************************************************************)
(* Entity resolution pipeline of tri-recruiting: the match scorer and the  *)
(* decision policy (etl/ai_agent.py, etl/match.py), the runner store of    *)
(* the TFRRS extractors and the SwimCloud matching batch with its three    *)
(* tables (db/models.py).                                                  *)
(*                                                                         *)
(* Abstractions.  rapidfuzz.token_set_ratio is an external library: each   *)
(* call is an input in 0..100 at integer resolution (int(r*0.9+b) and      *)
(* int(r*.6+b) agree with exact floor arithmetic on these inputs).  Python *)
(* None and '' of a text field are both "", None of birth_year is 0, as    *)
(* the code's truth tests treat them alike.                                *)
(***************************************************************************)
EXTENDS Integers, Sequences, FiniteSets, TLC

\* ------------------------------------------------------------------ bounds
ScoreMargin == 50
BaseYear == 2000
MaxStoreRuns == 2
MaxBatchRuns == 2
MaxBlocked == 4
MaxFetches == 2
MaxTextLen == 5
MaxFragments == 2
ClassMargin == 1
NoPrevious == 100
MaxStandards == 2
MaxLoads == 2
MaxCallers == 2
MaxCalls == 2
MaxLists == 2

\* ------------------------------------------------------- scoring constants
MATCH_THRESHOLD == 90
MANUAL_THRESHOLD == 70
HOMETOWN_EXACT_BONUS == 20
HOMETOWN_FUZZY_BONUS == 10
BIRTH_YEAR_EXACT_BONUS == 15
BIRTH_YEAR_OFF_BY_ONE_BONUS == 5
SCHOOL_FUZZY_BONUS == 10
NAME_REJECT_RATIO == 75
FUZZY_ACCEPT_RATIO == 80
AGENT_NAME_WEIGHT == 9
MATCH_NAME_WEIGHT == 6
WEIGHT_SCALE == 10
RUNNER_LIMIT == 10

\* ------------------------------------------------------ fetcher constants
MAX_RETRIES == 3
MIN_TEXT_LENGTH == 500
MIN_DIRECT_DELAY == 2
MAX_DIRECT_DELAY == 5
MIN_COOLDOWN == 10
request_delay_seconds == 2

\* -------------------------------------------------------- time constants
SECONDS_PER_MINUTE == 60
SECONDS_PER_HOUR == 3600

VARIABLES
    sc_pc,          \* "input" | "scored" | "decided"
    sc_variant,     \* which compute_match_score ran: "none" | "ai_agent" | "match"
    sc_runner,      \* the runner dict: hometown, birth_year, college_team
    sc_candidate,   \* the candidate dict: hometown, birth_year, swim_team
    sc_sim,         \* results of the token_set_ratio calls: name, hometown, team
    sc_score,       \* total_score returned
    sc_explanation, \* explanation returned, a sequence of <<token, value>>
    sc_status,      \* verification status decided from sc_score
    runners,        \* table runners, rows in runner_id order
    swimmers,       \* table swimmers, a set of rows
    matches,        \* table runner_swimmer_match, a set of rows
    SEARCH_CACHE,   \* the in-process search cache, query -> results
    cache_file,     \* the shelve file search_cache.db, query -> results
    pc,             \* position of process_all_runners
    batch,          \* runners = get_runners()[:10] of the running batch
    r_idx,          \* index of the current runner in batch
    urls,           \* urls of the current runner still to process
    cand,           \* candidate, score, explanation, status, swimmer_id of the
                    \* url being processed
    store_runs,     \* runs of the extract-and-store script so far
    batch_runs,     \* runs of process_all_runners so far
    last_persist,   \* the pair whose persist step (lines 362-363) returned last
    f_pc,           \* position of scrape_event_page: "idle" | "direct" | "selenium" | "done"
    f_variant,      \* which scraper runs: "improved" | "classic"
    f_host,         \* the host's behaviour
    f_received,     \* requests the host has received
    f_since,        \* seconds since the last request to the host was issued
    f_attempt,      \* direct attempts made in this fetch
    f_cache,        \* the requests_cache entry of the url
    f_log,          \* requests issued to the host in this fetch
    f_result,       \* "none" | "markup" | "exhausted" | "driver_error"
    f_page,         \* the markup returned
    f_fetches,      \* fetches started so far
    f_start,        \* f_received when this fetch started
    f_drivers,      \* Chrome sessions started and sessions quit so far
    t_pc,           \* "input" | "parsed" | "done"
    t_parser,       \* which time parser runs
    t_text,         \* the time text, a sequence of characters
    t_result,       \* what the parser returned
    t_kept,         \* the caller kept the result as a time
    x_pc,           \* "input" | "extracted"
    x_variant,      \* which extractor runs
    x_page,         \* the page as the extractor's selectors see it
    x_rows,         \* the rows returned
    k_pc,           \* "input" | "classified"
    k_input,        \* gender, event and time to classify
    k_result,       \* the tier assigned
    l_pc,           \* position of standards_loader.main: "idle" | "parsed"
    l_standards,    \* the TimeStandard objects parsed from the CSV file
    l_table,        \* table time_standards, a set of rows
    l_result,       \* how load_standards_to_database ended last
    l_loads,        \* runs of standards_loader.main so far
    s_callers,      \* the coroutines running bing_search_async
    s_invoked,      \* queries sent to the remote search agent, in order
    c_pc,           \* "input" | "done"
    performance_lists, \* the performance-list sections of the file
    c_counts        \* athletes returned by process_html_file, per event key

scoreVars == <<sc_pc, sc_variant, sc_runner, sc_candidate, sc_sim, sc_score,
               sc_explanation, sc_status>>

dbVars == <<runners, swimmers, matches>>

batchVars == <<SEARCH_CACHE, cache_file, pc, batch, r_idx, urls, cand,
               batch_runs, last_persist>>

fetchVars == <<f_pc, f_variant, f_host, f_received, f_since, f_attempt, f_cache,
               f_log, f_result, f_page, f_fetches, f_start, f_drivers>>

timeVars == <<t_pc, t_parser, t_text, t_result, t_kept>>

extractVars == <<x_pc, x_variant, x_page, x_rows>>

classVars == <<k_pc, k_input, k_result>>

loadVars == <<l_pc, l_standards, l_table, l_result, l_loads>>

searchVars == <<s_callers, s_invoked>>

capVars == <<c_pc, performance_lists, c_counts>>

lateVars == <<loadVars, searchVars, capVars>>

stageVars == <<fetchVars, timeVars, extractVars, classVars, lateVars>>

othersOfFetch == <<scoreVars, dbVars, batchVars, store_runs, timeVars, extractVars,
                   classVars,
                  lateVars>>

othersOfTime == <<scoreVars, dbVars, batchVars, store_runs, fetchVars, extractVars,
                  classVars,
                  lateVars>>

othersOfExtract == <<scoreVars, dbVars, batchVars, store_runs, fetchVars, timeVars,
                     classVars,
                  lateVars>>

othersOfClass == <<scoreVars, dbVars, batchVars, store_runs, fetchVars, timeVars,
                   extractVars,
                  lateVars>>

othersOfLoad == <<scoreVars, dbVars, batchVars, store_runs, fetchVars, timeVars,
                  extractVars, classVars, searchVars, capVars>>

othersOfSearch == <<scoreVars, dbVars, pc, batch, r_idx, urls, cand, batch_runs,
                    last_persist, store_runs, fetchVars, timeVars, extractVars,
                    classVars, loadVars, capVars>>

othersOfCap == <<scoreVars, dbVars, batchVars, store_runs, fetchVars, timeVars,
                 extractVars, classVars, loadVars, searchVars>>

vars == <<scoreVars, dbVars, batchVars, store_runs, stageVars>>

\* --------------------------------------------------------- string helpers
\* str.lower() on the hometown strings of the model
Lower(s) ==
    CASE s = "Austin, TX" -> "austin, tx"
      [] s = "Boston, MA" -> "boston, ma"
      [] s = "Dallas, TX" -> "dallas, tx"
      [] OTHER -> s

Abs(x) == IF x < 0 THEN 0 - x ELSE x

\* ------------------------------------------------------------ the scorer
\* the early return of compute_match_score
NameRejectedLoose(name_ratio) == name_ratio < MANUAL_THRESHOLD
NameRejected(name_ratio) == name_ratio < NAME_REJECT_RATIO

HometownBonusStrict(r_ht, c_ht, ht_ratio) ==
    IF r_ht # "" /\ c_ht # ""
    THEN IF Lower(r_ht) = Lower(c_ht) THEN HOMETOWN_EXACT_BONUS
         ELSE IF ht_ratio > FUZZY_ACCEPT_RATIO THEN HOMETOWN_FUZZY_BONUS ELSE 0
    ELSE 0
HometownBonus(r_ht, c_ht, ht_ratio) ==
    IF r_ht # "" /\ c_ht # ""
    THEN IF Lower(r_ht) = Lower(c_ht) THEN HOMETOWN_EXACT_BONUS
         ELSE IF ht_ratio >= FUZZY_ACCEPT_RATIO THEN HOMETOWN_FUZZY_BONUS ELSE 0
    ELSE 0

HometownPart(r_ht, c_ht, ht_ratio) ==
    IF r_ht # "" /\ c_ht # ""
    THEN IF Lower(r_ht) = Lower(c_ht)
         THEN << <<"hometown_exact_bonus", HOMETOWN_EXACT_BONUS>> >>
         ELSE IF ht_ratio >= FUZZY_ACCEPT_RATIO
              THEN << <<"hometown_fuzzy_bonus", HOMETOWN_FUZZY_BONUS>> >>
              ELSE << >>
    ELSE << >>

BirthBonusUnguarded(r_by, c_by) ==
    IF r_by = c_by THEN BIRTH_YEAR_EXACT_BONUS
    ELSE IF Abs(r_by - c_by) = 1 THEN BIRTH_YEAR_OFF_BY_ONE_BONUS ELSE 0
BirthBonus(r_by, c_by) ==
    IF r_by # 0 /\ c_by # 0
    THEN IF r_by = c_by THEN BIRTH_YEAR_EXACT_BONUS
         ELSE IF Abs(r_by - c_by) = 1 THEN BIRTH_YEAR_OFF_BY_ONE_BONUS ELSE 0
    ELSE 0

BirthPart(r_by, c_by) ==
    IF r_by # 0 /\ c_by # 0
    THEN IF r_by = c_by
         THEN << <<"birth_year_exact_bonus", BIRTH_YEAR_EXACT_BONUS>> >>
         ELSE IF Abs(r_by - c_by) = 1
              THEN << <<"birth_year_off_by_one_bonus", BIRTH_YEAR_OFF_BY_ONE_BONUS>> >>
              ELSE << >>
    ELSE << >>

SchoolBonus(r_team, c_team, team_ratio) ==
    IF r_team # "" /\ c_team # "" /\ team_ratio >= FUZZY_ACCEPT_RATIO
    THEN SCHOOL_FUZZY_BONUS ELSE 0

SchoolPart(r_team, c_team, team_ratio) ==
    IF r_team # "" /\ c_team # "" /\ team_ratio >= FUZZY_ACCEPT_RATIO
    THEN << <<"school_fuzzy_bonus", SCHOOL_FUZZY_BONUS>> >> ELSE << >>

\* int(name_ratio * w + bonuses) with w = weight / WEIGHT_SCALE
TotalScore(weight, name_ratio, bonuses) ==
    ((weight * name_ratio) \div WEIGHT_SCALE) + bonuses

\* compute_match_score(runner, candidate) -> (total_score, explanation)
compute_match_score(weight, runner, candidate, sim) ==
    IF NameRejected(sim.name)
    THEN [total |-> 0,
          explanation |-> << <<"Name ratio below 75: no match.", sim.name>> >>]
    ELSE LET hometown_bonus == HometownBonus(runner.hometown, candidate.hometown,
                                             sim.hometown)
             birth_bonus == BirthBonus(runner.birth_year, candidate.birth_year)
             school_bonus == SchoolBonus(runner.college_team, candidate.swim_team,
                                         sim.team)
             total_score == TotalScore(weight, sim.name,
                                       hometown_bonus + birth_bonus + school_bonus)
         IN [total |-> total_score,
             explanation |->
                 << <<"name_ratio", sim.name>> >>
                 \o HometownPart(runner.hometown, candidate.hometown, sim.hometown)
                 \o BirthPart(runner.birth_year, candidate.birth_year)
                 \o SchoolPart(runner.college_team, candidate.swim_team, sim.team)
                 \o << <<"total_score", total_score>> >>]

\* the decision step of process_all_runners
DecideBandsSwapped(score) ==
    IF score >= MATCH_THRESHOLD THEN "manual_review"
    ELSE IF score >= MANUAL_THRESHOLD THEN "auto_verified"
    ELSE "no_match"
DecideOffByOne(score) ==
    IF score > MATCH_THRESHOLD THEN "auto_verified"
    ELSE IF score > MANUAL_THRESHOLD THEN "manual_review"
    ELSE "no_match"
Decide(score) ==
    IF score >= MATCH_THRESHOLD THEN "auto_verified"
    ELSE IF score >= MANUAL_THRESHOLD THEN "manual_review"
    ELSE "no_match"

\* -------------------------------------------------- inputs of the scorer
RunnerHometowns == {"", "Austin, TX", "Boston, MA"}
CandidateHometowns == {"", "austin, tx", "Dallas, TX"}
RunnerBirthYears == {0, BaseYear}
CandidateBirthYears == {0, BaseYear - 1, BaseYear, BaseYear + 2}
RunnerTeams == {"", "Texas"}
CandidateTeams == {"", "Texas Longhorns"}
Ratios == 0..100
FuzzySamples == {0, FUZZY_ACCEPT_RATIO - 1, FUZZY_ACCEPT_RATIO, 100}

\* token_set_ratio is called for the hometowns only in the else branch
HometownRatioUsed(r_ht, c_ht) ==
    r_ht # "" /\ c_ht # "" /\ Lower(r_ht) # Lower(c_ht)
TeamRatioUsed(r_team, c_team) == r_team # "" /\ c_team # ""

ScoreInputs == (0 - ScoreMargin)..(100 + ScoreMargin)

NoRunner == [hometown |-> "", birth_year |-> 0, college_team |-> ""]
NoCandidate == [hometown |-> "", birth_year |-> 0, swim_team |-> ""]
NoSim == [name |-> 0, hometown |-> 0, team |-> 0]

\* ------------------------------------------------------------- the tables
Max(S) == CHOOSE x \in S : \A y \in S : y <= x

\* the key an autoincrement INTEGER PRIMARY KEY gets on INSERT (SQLite, the
\* default DATABASE_URL of db/models.py): one more than the largest key
NextId(ids) == IF ids = {} THEN 1 ELSE Max(ids) + 1

RunnerIds(table) == {table[i].runner_id : i \in 1..Len(table)}
SwimmerIds(table) == {s.swimmer_id : s \in table}
MatchIds(table) == {m.match_id : m \in table}

Take(seq, n) == IF Len(seq) <= n THEN seq ELSE SubSeq(seq, 1, n)

\* the athletes process_html_file returns for the unchanged input file
PageAthletes ==
    << [first_name |-> "ann", last_name |-> "lee", college_team |-> "Texas"] >>

\* store_athletes: every Runner is built without runner_id, so session.merge
\* adds it as a new row; hometown is not set and birth_year is None
MergeRunners(table, athletes) ==
    LET base == NextId(RunnerIds(table))
    IN table \o [i \in 1..Len(athletes) |->
                    [runner_id |-> base + i - 1,
                     first_name |-> athletes[i].first_name,
                     last_name |-> athletes[i].last_name,
                     college_team |-> athletes[i].college_team,
                     hometown |-> "",
                     birth_year |-> 0]]

\* get_runners() returns the rows as dicts
get_runners == runners

\* build_search_query: the parts that are joined with ' '
build_search_query(runner) ==
    <<runner.first_name, runner.last_name, "swim profile">>
    \o (IF runner.college_team # "" THEN <<runner.college_team>> ELSE << >>)
    \o (IF runner.hometown # "" THEN <<runner.hometown>> ELSE << >>)

\* --------------------------------------------------------- search results
\* a url is the sequence of its '/'-separated parts after the scheme; a
\* trailing "" part is a trailing slash
UrlProfile == <<"www.swimcloud.com", "swimmer", "7">>
UrlProfileSlash == <<"www.swimcloud.com", "swimmer", "7", "">>
UrlTimes == <<"www.swimcloud.com", "swimmer", "7", "times">>
UrlNamed == <<"www.swimcloud.com", "swimmer", "ann-lee">>
UrlOther == <<"www.example.com", "ann-lee">>
UrlNone == <<"None">>

\* the lists the search agent may return for a query
SearchResults ==
    { <<UrlOther>>,
      <<UrlOther, UrlProfile>>,
      <<UrlNamed, UrlTimes>>,
      <<UrlProfileSlash, UrlNone>> }

\* 'swimcloud.com/swimmer' in url
IsSwimmerUrl(url) ==
    \E i \in 1..(Len(url) - 1) :
        url[i] = "www.swimcloud.com" /\ url[i + 1] = "swimmer"

\* [r['url'] for r in results if 'swimcloud.com/swimmer' in r['url']]
RECURSIVE FilterUrls(_)
FilterUrls(results) ==
    IF results = << >> THEN << >>
    ELSE IF IsSwimmerUrl(Head(results))
         THEN <<Head(results)>> \o FilterUrls(Tail(results))
         ELSE FilterUrls(Tail(results))

\* the membership test raises TypeError on a url that is None
HasNoneUrl(results) == \E i \in 1..Len(results) : results[i] = UrlNone

\* url.rstrip('/')
RECURSIVE RStripSlash(_)
RStripSlash(url) ==
    IF url # << >> /\ url[Len(url)] = ""
    THEN RStripSlash(SubSeq(url, 1, Len(url) - 1))
    ELSE url

IsInt(text) == text \in {"7", "8"}
IntOf(text) == IF text = "7" THEN 7 ELSE 8

\* upsert_swimmer lines 243-248: "none" when parts[-2] is not 'swimmer',
\* "error" when int(parts[-1]) raises ValueError
SwimmerIdOf(url) ==
    LET parts == RStripSlash(url)
    IN IF Len(parts) >= 2 /\ parts[Len(parts) - 1] = "swimmer"
       THEN IF IsInt(parts[Len(parts)])
            THEN [kind |-> "id", id |-> IntOf(parts[Len(parts)])]
            ELSE [kind |-> "error", id |-> 0]
       ELSE [kind |-> "none", id |-> 0]

\* session.merge(Swimmer(swimmer_id=...)): with a key, the row of that key is
\* replaced or added; without a key a new row is added under a fresh key
MergedSwimmerId(table, sid) ==
    IF sid.kind = "id" THEN sid.id ELSE NextId(SwimmerIds(table))

MergeSwimmer(table, sid, candidate, url) ==
    LET key == MergedSwimmerId(table, sid)
    IN {s \in table : s.swimmer_id # key}
       \cup {[swimmer_id |-> key,
              swim_team |-> candidate.swim_team,
              swimcloud_url |-> url]}

\* the profile pages get_and_parse_candidate may find behind a url, with the
\* token_set_ratio of the runner's and the candidate's names and teams;
\* birth_year is always None (line 148)
CandidatePages ==
    { [name_ratio |-> 60, hometown |-> "", swim_team |-> "", team_ratio |-> 0],
      [name_ratio |-> 80, hometown |-> "", swim_team |-> "", team_ratio |-> 0],
      [name_ratio |-> 80, hometown |-> "austin, tx", swim_team |-> "",
       team_ratio |-> 0],
      [name_ratio |-> 100, hometown |-> "austin, tx",
       swim_team |-> "Texas Longhorns", team_ratio |-> 100] }

NoPersist == [runner_id |-> 0, swimmer_id |-> 0, had_review |-> FALSE,
              db_ok |-> TRUE]

NoCand == [url |-> << >>, candidate |-> NoCandidate, sim |-> NoSim, score |-> 0,
           explanation |-> << >>, status |-> "none", swimmer_id |-> 0]

\* 'name_ratio' in explanation, 'hometown' in explanation, ...
TokenContains(token, sub) ==
    CASE sub = "name_ratio" -> token = "name_ratio"
      [] sub = "hometown" ->
            token \in {"hometown_exact_bonus", "hometown_fuzzy_bonus"}
      [] sub = "birth_year" ->
            token \in {"birth_year_exact_bonus", "birth_year_off_by_one_bonus"}
      [] sub = "school" -> token = "school_fuzzy_bonus"
      [] OTHER -> FALSE

InExplanation(sub, explanation) ==
    \E i \in 1..Len(explanation) : TokenContains(explanation[i][1], sub)

\* update_match_record lines 276-284
MatchedFieldsWithName(explanation) ==
    <<"name">>
    \o (IF InExplanation("hometown", explanation) THEN <<"hometown">> ELSE << >>)
    \o (IF InExplanation("birth_year", explanation) THEN <<"birth_year">> ELSE << >>)
    \o (IF InExplanation("school", explanation) THEN <<"school">> ELSE << >>)
MatchedFields(explanation) ==
    (IF InExplanation("name_ratio", explanation) THEN <<"name">> ELSE << >>)
    \o (IF InExplanation("hometown", explanation) THEN <<"hometown">> ELSE << >>)
    \o (IF InExplanation("birth_year", explanation) THEN <<"birth_year">> ELSE << >>)
    \o (IF InExplanation("school", explanation) THEN <<"school">> ELSE << >>)

PairRows(table, runner_id, swimmer_id) ==
    {m \in table : m.runner_id = runner_id /\ m.swimmer_id = swimmer_id}

\* the constraints of runner_swimmer_match an INSERT must satisfy
MatchInsertAccepted(table, runner_id, swimmer_id, score) ==
    /\ PairRows(table, runner_id, swimmer_id) = {}
    /\ score >= 0 /\ score <= 100

\* session.merge(RunnerSwimmerMatch(...)) + commit: the object has no
\* match_id, so merge INSERTs; a rejected INSERT is rolled back
MergeMatchByPair(table, runner_id, swimmer_id, score, status, explanation) ==
    IF score >= 0 /\ score <= 100
    THEN {m \in table : ~(m.runner_id = runner_id /\ m.swimmer_id = swimmer_id)}
         \cup {[match_id |-> NextId(MatchIds(table)),
                runner_id |-> runner_id, swimmer_id |-> swimmer_id,
                match_score |-> score, match_explanation |-> explanation,
                verification_status |-> status,
                matched_on_fields |-> MatchedFields(explanation),
                reviewer_notes |-> "", reviewed_by |-> "", reviewed_at |-> ""]}
    ELSE table
MergeMatch(table, runner_id, swimmer_id, score, status, explanation) ==
    IF MatchInsertAccepted(table, runner_id, swimmer_id, score)
    THEN table \cup {[match_id |-> NextId(MatchIds(table)),
                      runner_id |-> runner_id, swimmer_id |-> swimmer_id,
                      match_score |-> score, match_explanation |-> explanation,
                      verification_status |-> status,
                      matched_on_fields |-> MatchedFields(explanation),
                      reviewer_notes |-> "", reviewed_by |-> "",
                      reviewed_at |-> ""]}
    ELSE table

\* ------------------------------------------------------ the page fetchers
\* scrape_tfrrs_improved.scrape_event_page ("improved") and
\* scrape_tfrrs.TFRRSScraper._scrape_event_page ("classic").  Time is in whole
\* seconds; a request is answered in the second it is issued, the shortest
\* spacing the code allows.  A page is what BeautifulSoup / the driver see of
\* it: has_title (a <title> element), title (its words, lower case), text_len
\* (len(soup.get_text().strip())), has_table (the results table selector).
PageOk == [has_title |-> TRUE, title |-> {"tfrrs", "results"},
           text_len |-> MIN_TEXT_LENGTH + 1, has_table |-> TRUE]
PageShort == [has_title |-> TRUE, title |-> {"tfrrs"},
              text_len |-> MIN_TEXT_LENGTH, has_table |-> FALSE]
PageNoTitle == [has_title |-> FALSE, title |-> {},
                text_len |-> MIN_TEXT_LENGTH + 1, has_table |-> FALSE]
PageServerError == [has_title |-> TRUE, title |-> {"500", "internal", "server", "error"},
                    text_len |-> 0, has_table |-> FALSE]
NoPage == [has_title |-> FALSE, title |-> {}, text_len |-> 0, has_table |-> FALSE]

\* titles of the page a host sends with HTTP 403
BlockTitles == {{}, {"403", "forbidden"}, {"access", "denied"}}
PageForbidden(title) == [has_title |-> title # {}, title |-> title,
                         text_len |-> 0, has_table |-> FALSE]

\* a host answers 403 to its first `blocked` requests and `then` afterwards
HostAnswers == {"ok", "short", "notitle", "error500", "timeout"}
Hosts == [blocked : 0..MaxBlocked, then : HostAnswers, block_title : BlockTitles]

\* resp.status_code of the request the host receives as its (received+1)-th;
\* 0 stands for requests.exceptions.RequestException
StatusOf(host, received) ==
    IF received < host.blocked THEN 403
    ELSE IF host.then = "error500" THEN 500
    ELSE IF host.then = "timeout" THEN 0
    ELSE 200

PageOf(host, received) ==
    IF received < host.blocked THEN PageForbidden(host.block_title)
    ELSE IF host.then = "ok" THEN PageOk
    ELSE IF host.then = "short" THEN PageShort
    ELSE IF host.then = "notitle" THEN PageNoTitle
    ELSE IF host.then = "error500" THEN PageServerError
    ELSE NoPage

\* _try_requests_approach line 151
Substantive(page) == page.has_title /\ page.text_len > MIN_TEXT_LENGTH

\* _try_selenium_approach line 186
SeleniumBlockedTitle(title) ==
    title = {} \/ "error" \in title \/ "forbidden" \in title

\* scrape_event_page line 303
NeedsFallbackAlways(soup_found) == TRUE
NeedsFallback(soup_found) == ~soup_found

\* range(max_retries) line 131
RetriesLeft(attempt) == attempt < MAX_RETRIES

\* random.uniform(2.0, 5.0) line 134, random.uniform(10.0, 20.0) line 159
DirectDelays == {MIN_DIRECT_DELAY, MAX_DIRECT_DELAY}
Cooldowns == {MIN_COOLDOWN}

Elapsed(since, delay) == IF since + delay > NoPrevious THEN NoPrevious ELSE since + delay

NoCache == [hit |-> FALSE, page |-> NoPage]

NoDrivers == [started |-> 0, quit |-> 0]
\* webdriver.Chrome(options=...) returned a driver
DriverStarted(drivers) == [drivers EXCEPT !.started = @ + 1]
\* driver.quit() of the finally clause
DriverQuit(drivers) == [drivers EXCEPT !.quit = @ + 1]

InitFetchOff ==
    /\ f_pc = "off"
    /\ f_variant = "none"
    /\ f_host = [blocked |-> 0, then |-> "ok", block_title |-> {}]
    /\ f_received = 0
    /\ f_since = NoPrevious
    /\ f_attempt = 0
    /\ f_cache = NoCache
    /\ f_log = << >>
    /\ f_result = "none"
    /\ f_page = NoPage
    /\ f_fetches = 0
    /\ f_start = 0
    /\ f_drivers = NoDrivers

\* ------------------------------------------------------- the time parsers
\* A text is a sequence of one-character strings.  A parsed time is kept in
\* hundredths of a second (cs); Decimal.quantize(Decimal('0.01')) is a
\* truncation on the inputs of the model, whose digits after the second
\* decimal are below 5.  `more` records non-zero digits after the second
\* decimal of a value that is not quantized (extract_standards).
DigitChars == {"0", "1", "2", "3", "4", "5", "6", "7", "8", "9"}
IsDigit(c) == c \in DigitChars
DigitVal(c) ==
    CASE c = "0" -> 0 [] c = "1" -> 1 [] c = "2" -> 2 [] c = "3" -> 3
      [] c = "4" -> 4 [] c = "5" -> 5 [] c = "6" -> 6 [] c = "7" -> 7
      [] c = "8" -> 8 [] OTHER -> 9

RECURSIVE NatOf(_)
NatOf(s) == IF s = << >> THEN 0
            ELSE NatOf(SubSeq(s, 1, Len(s) - 1)) * 10 + DigitVal(s[Len(s)])

AllDigits(s) == Len(s) > 0 /\ \A i \in 1..Len(s) : IsDigit(s[i])

RECURSIVE LStrip(_)
LStrip(s) == IF s # << >> /\ s[1] = " " THEN LStrip(Tail(s)) ELSE s
RECURSIVE RStrip(_)
RStrip(s) == IF s # << >> /\ s[Len(s)] = " "
             THEN RStrip(SubSeq(s, 1, Len(s) - 1)) ELSE s
\* str.strip()
Strip(s) == LStrip(RStrip(s))

Count(s, c) == Cardinality({i \in 1..Len(s) : s[i] = c})
Contains(s, c) == \E i \in 1..Len(s) : s[i] = c

\* sep occurs in s at position i
OccursAt(s, sep, i) ==
    /\ i + Len(sep) - 1 <= Len(s)
    /\ \A k \in 1..Len(sep) : s[i + k - 1] = sep[k]

\* str.split(sep)
RECURSIVE Split(_, _)
Split(s, sep) ==
    LET hits == {i \in 1..Len(s) : OccursAt(s, sep, i)}
    IN IF hits = {} THEN <<s>>
       ELSE LET i == CHOOSE h \in hits : \A g \in hits : h <= g
            IN <<SubSeq(s, 1, i - 1)>> \o Split(SubSeq(s, i + Len(sep), Len(s)), sep)

\* int(s): surrounding white space allowed, then digits only
PyInt(s) ==
    LET t == Strip(s)
    IN [ok |-> AllDigits(t), v |-> IF AllDigits(t) THEN NatOf(t) ELSE 0]

\* float(s) on digits and ".": a digit string with at most one "."
PyFloat(s) ==
    LET t == Strip(s)
        parts == Split(t, <<".">>)
        a == parts[1]
        b == IF Len(parts) > 1 THEN parts[2] ELSE << >>
        ok == /\ Len(parts) <= 2
              /\ a = << >> \/ AllDigits(a)
              /\ b = << >> \/ AllDigits(b)
              /\ a # << >> \/ b # << >>
        d1 == IF Len(b) >= 1 THEN DigitVal(b[1]) ELSE 0
        d2 == IF Len(b) >= 2 THEN DigitVal(b[2]) ELSE 0
    IN IF ok
       THEN [ok |-> TRUE, cs |-> NatOf(a) * 100 + d1 * 10 + d2,
             more |-> \E i \in 3..Len(b) : b[i] # "0"]
       ELSE [ok |-> FALSE, cs |-> 0, more |-> FALSE]

TimeValue(cs) == [kind |-> "value", cs |-> cs, more |-> FALSE]
TimeNone == [kind |-> "none", cs |-> 0, more |-> FALSE]
TimeRaises == [kind |-> "raises", cs |-> 0, more |-> FALSE]

\* total = mins * 60 + secs, quantized
MinutesSeconds(mins, secs) == TimeValue(mins * SECONDS_PER_MINUTE * 100 + secs.cs)

\* standards_loader.parse_time_to_seconds
HoursMinutesSeconds(h, m, s) ==
    TimeValue((h * SECONDS_PER_HOUR + m * SECONDS_PER_MINUTE + s) * 100)

parse_time_to_seconds(text) ==
    IF Strip(text) = << >> THEN TimeNone
    ELSE
      LET s0 == Strip(text)
          dual == Split(s0, <<" ", "/", " ">>)
          s1 == IF Len(dual) = 2 THEN Strip(dual[2]) ELSE s0
          parts == Split(s1, <<":">>)
      IN IF Count(s1, ":") = 2
         THEN LET h == PyInt(parts[1])
                  m == PyInt(parts[2])
                  s == PyInt(parts[3])
              IN IF h.ok /\ m.ok /\ s.ok
                 THEN HoursMinutesSeconds(h.v, m.v, s.v) ELSE TimeNone
         ELSE IF Count(s1, ":") = 1
         THEN LET mins == PyInt(parts[1])
                  secs == PyFloat(parts[2])
              IN IF mins.ok /\ secs.ok
                 THEN MinutesSeconds(mins.v, secs) ELSE TimeNone
         ELSE LET f == PyFloat(s1)
              IN IF f.ok THEN TimeValue(f.cs) ELSE TimeNone

\* standards_loader_new.parse_time_to_seconds: int seconds, or a float that is
\* not quantized
standards_loader_new_parse_time(text) ==
    IF Strip(text) = << >> THEN TimeNone
    ELSE
      LET s1 == IF \E i \in 1..Len(text) : OccursAt(text, <<" ", "/", " ">>, i)
                THEN Strip(Split(text, <<" ", "/", " ">>)[1])
                ELSE Strip(text)
          parts == Split(s1, <<":">>)
      IN IF Count(s1, ":") = 2
         THEN LET h == PyInt(parts[1])
                  m == PyInt(parts[2])
                  s == PyInt(parts[3])
              IN IF h.ok /\ m.ok /\ s.ok
                 THEN HoursMinutesSeconds(h.v, m.v, s.v) ELSE TimeNone
         ELSE IF Count(s1, ":") = 1
         THEN LET mins == PyInt(parts[1])
                  secs == PyInt(parts[2])
              IN IF mins.ok /\ secs.ok
                 THEN TimeValue((mins.v * SECONDS_PER_MINUTE + secs.v) * 100)
                 ELSE TimeNone
         ELSE LET f == PyFloat(s1)
              IN IF f.ok THEN [kind |-> "value", cs |-> f.cs, more |-> f.more]
                 ELSE TimeNone

\* last index of the run of digits that starts at i (i - 1: no digit at i)
DigitRunEnd(s, i) ==
    Max({j \in (i - 1)..Len(s) : \A k \in i..j : IsDigit(s[k])})

\* \d+\.\d+ at i: the index of its last character, 0 when it does not match
DecimalAt(s, i) ==
    LET e1 == DigitRunEnd(s, i)
    IN IF e1 >= i /\ e1 + 1 <= Len(s) /\ s[e1 + 1] = "."
          /\ DigitRunEnd(s, e1 + 2) >= e1 + 2
       THEN DigitRunEnd(s, e1 + 2) ELSE 0

\* \d+ at i
IntegerAt(s, i) == IF DigitRunEnd(s, i) >= i THEN DigitRunEnd(s, i) ELSE 0

\* (\d+:)?\d+\.\d+ at i
TimeDecimalAt(s, i) ==
    LET e1 == DigitRunEnd(s, i)
        grouped == IF e1 >= i /\ e1 + 1 <= Len(s) /\ s[e1 + 1] = ":"
                   THEN DecimalAt(s, e1 + 2) ELSE 0
    IN IF grouped > 0 THEN grouped ELSE DecimalAt(s, i)

\* (\d+:)?\d+ at i
TimeIntegerAt(s, i) ==
    LET e1 == DigitRunEnd(s, i)
        grouped == IF e1 >= i /\ e1 + 1 <= Len(s) /\ s[e1 + 1] = ":"
                   THEN IntegerAt(s, e1 + 2) ELSE 0
    IN IF grouped > 0 THEN grouped ELSE IntegerAt(s, i)

\* re.search of the two patterns of lines 56-59: the leftmost match, << >>
\* standing for no match
TimeMatch(s) ==
    LET dec == {i \in 1..Len(s) : TimeDecimalAt(s, i) > 0}
        ints == {i \in 1..Len(s) : TimeIntegerAt(s, i) > 0}
        first(S) == CHOOSE i \in S : \A j \in S : i <= j
    IN IF dec # {} THEN SubSeq(s, first(dec), TimeDecimalAt(s, first(dec)))
       ELSE IF ints # {} THEN SubSeq(s, first(ints), TimeIntegerAt(s, first(ints)))
       ELSE << >>

\* tfrrs_html_processor._parse_time_to_seconds and
\* tfrrs_html_processor_new.parse_time_to_seconds
processor_parse_time(text) ==
    IF Strip(text) = << >> THEN TimeNone
    ELSE
      LET cleaned == TimeMatch(Strip(text))
          parts == Split(cleaned, <<":">>)
      IN IF cleaned = << >> THEN TimeNone
         ELSE IF Contains(cleaned, ":")
         THEN IF Len(parts) = 2
              THEN LET mins == PyInt(parts[1])
                       secs == PyFloat(parts[2])
                   IN IF mins.ok /\ secs.ok
                      THEN MinutesSeconds(mins.v, secs) ELSE TimeNone
              ELSE TimeNone
         ELSE LET f == PyFloat(cleaned)
              IN IF f.ok THEN TimeValue(f.cs) ELSE TimeNone

\* TFRRSScraper._parse_time_to_seconds; its except clauses name
\* decimal.InvalidOperation while only Decimal is imported, so a ValueError
\* leaves the function as a NameError
scraper_parse_time(text) ==
    IF Strip(text) = << >> THEN TimeNone
    ELSE
      LET s == SelectSeq(Strip(text), LAMBDA c : c # ",")
          parts == Split(s, <<":">>)
      IN IF Contains(s, ":")
         THEN IF Len(parts) # 2 THEN TimeNone
              ELSE LET minutes == PyInt(parts[1])
                       seconds_part == PyFloat(parts[2])
                   IN IF minutes.ok /\ seconds_part.ok
                      THEN MinutesSeconds(minutes.v, seconds_part)
                      ELSE TimeRaises
         ELSE LET f == PyFloat(s)
              IN IF f.ok THEN TimeValue(f.cs) ELSE TimeRaises

\* extract_standards.time_to_seconds: a float, not quantized
TimeZero == [kind |-> "value", cs |-> 0, more |-> FALSE]
time_to_seconds(text) ==
    IF text = << >> THEN TimeZero
    ELSE
      LET s == Strip(text)
          parts == Split(s, <<":">>)
          f == PyFloat(s)
      IN IF Contains(s, ":") /\ Len(parts) = 2
         THEN LET minutes == PyFloat(parts[1])
                  seconds == PyFloat(parts[2])
              IN IF minutes.ok /\ seconds.ok
                 THEN [kind |-> "value",
                       cs |-> minutes.cs * SECONDS_PER_MINUTE + seconds.cs,
                       more |-> minutes.more \/ seconds.more]
                 ELSE TimeRaises
         ELSE IF f.ok THEN [kind |-> "value", cs |-> f.cs, more |-> f.more]
         ELSE TimeZero

\* the wind reading pattern \s*[\+\-]?\d*\.?\d*\s*$ matches the whole of u
IsWindSuffix(u) ==
    LET v == Strip(u)
        w == IF v # << >> /\ v[1] \in {"+", "-"} THEN Tail(v) ELSE v
    IN /\ \A i \in 1..Len(w) : IsDigit(w[i]) \/ w[i] = "."
       /\ Count(w, ".") <= 1

\* scrape_tfrrs_improved._parse_time_to_seconds
improved_parse_time(text) ==
    IF Strip(text) = << >> THEN TimeNone
    ELSE
      LET s == Strip(text)
          cut == CHOOSE i \in 1..(Len(s) + 1) :
                    /\ IsWindSuffix(SubSeq(s, i, Len(s)))
                    /\ \A j \in 1..(i - 1) : ~IsWindSuffix(SubSeq(s, j, Len(s)))
          cleaned == SelectSeq(SubSeq(s, 1, cut - 1),
                               LAMBDA c : IsDigit(c) \/ c \in {".", ":"})
          parts == Split(cleaned, <<":">>)
      IN IF cleaned = << >> THEN TimeNone
         ELSE IF Contains(cleaned, ":")
         THEN IF Len(parts) = 2
              THEN LET mins == PyInt(parts[1])
                       secs == PyFloat(parts[2])
                   IN IF mins.ok /\ secs.ok
                      THEN MinutesSeconds(mins.v, secs) ELSE TimeNone
              ELSE TimeNone
         ELSE LET f == PyFloat(cleaned)
              IN IF f.ok THEN TimeValue(f.cs) ELSE TimeNone

\* what the caller of each parser does with the result: TRUE when it keeps
\* the value as a time
CallerKeeps(parser, result) ==
    /\ result.kind = "value"
    /\ CASE parser = "standards_loader" -> TRUE
         [] parser = "tfrrs_html_processor" -> result.cs > 0
         [] parser = "scrape_tfrrs" -> result.cs # 0
         [] parser = "extract_standards" -> result.cs > 0 \/ result.more
         [] OTHER -> TRUE

Parsers == {"standards_loader", "standards_loader_new", "tfrrs_html_processor",
            "scrape_tfrrs", "extract_standards", "scrape_tfrrs_improved"}

TimeTexts ==
    LET alphabet == {"0", "1", "2", ":", ".", "a"}
        examples ==
            {<<"1", ":", "4", "8", ".", "2", "3">>,
             <<"3", "4", ":", "0", "0", ":", "0", "0">>,
             <<"a", "b", "c">>,
             <<" ">>,
             <<"2", ":", "1", "6", " ", "/", " ", "2", ":", "0", "0">>,
             <<"1", ":", "4", "8", ".", "2", "3", " ", "+", "1", ".", "2">>}
    IN examples \cup UNION {[1..n -> alphabet] : n \in 0..MaxTextLen}

InitTimeOff ==
    /\ t_pc = "off"
    /\ t_parser = "none"
    /\ t_text = << >>
    /\ t_result = TimeNone
    /\ t_kept = FALSE

InitExtractOff ==
    /\ x_pc = "off"
    /\ x_variant = "none"
    /\ x_page = << >>
    /\ x_rows = << >>

InitClassOff ==
    /\ k_pc = "off"
    /\ k_input = << >>
    /\ k_result = "none"

InitLoadOff ==
    /\ l_pc = "off"
    /\ l_standards = << >>
    /\ l_table = {}
    /\ l_result = "none"
    /\ l_loads = 0

InitSearchOff ==
    /\ s_callers = << >>
    /\ s_invoked = << >>

InitCapOff ==
    /\ c_pc = "off"
    /\ performance_lists = << >>
    /\ c_counts = << >>

InitLateOff == InitLoadOff /\ InitSearchOff /\ InitCapOff

InitStagesOff ==
    InitFetchOff /\ InitTimeOff /\ InitExtractOff /\ InitClassOff /\ InitLateOff

\* ------------------------------------------------------------ the pipeline
InitPipeline ==
    /\ runners = << >>
    /\ swimmers = {}
    /\ matches = {}
    /\ SEARCH_CACHE = << >>
    /\ cache_file = << >>
    /\ pc = "idle"
    /\ batch = << >>
    /\ r_idx = 0
    /\ urls = << >>
    /\ cand = NoCand
    /\ store_runs = 0
    /\ batch_runs = 0
    /\ last_persist = NoPersist

InitScoreOff ==
    /\ sc_pc = "off"
    /\ sc_variant = "none"
    /\ sc_runner = NoRunner
    /\ sc_candidate = NoCandidate
    /\ sc_sim = NoSim
    /\ sc_score = 0
    /\ sc_explanation = << >>
    /\ sc_status = "none"

Init == InitScoreOff /\ InitPipeline /\ InitStagesOff

NotRunning == pc \in {"idle", "done", "aborted"}

\* tfrrs_html_processor_new.main: process_html_file, then store_athletes
StoreAthletes ==
    /\ NotRunning
    /\ store_runs < MaxStoreRuns
    /\ store_runs' = store_runs + 1
    /\ runners' = MergeRunners(runners, PageAthletes)
    /\ UNCHANGED <<scoreVars, stageVars, swimmers, matches, batchVars>>

\* upload_batch_results.update_runner_from_agent_output for the agent output
\* {name: "Ann Lee", college: "Texas", hometown: "Austin, TX"}: of the runners
\* with that name the first one with the best college ratio gets the hometown
UpdateRunnerFromAgentOutput ==
    /\ NotRunning
    /\ \E i \in 1..Len(runners) :
          /\ runners[i].first_name = "ann" /\ runners[i].last_name = "lee"
          /\ \A j \in 1..(i - 1) :
                ~(runners[j].first_name = "ann" /\ runners[j].last_name = "lee")
          /\ runners' = [runners EXCEPT ![i].hometown = "Austin, TX"]
    /\ UNCHANGED <<scoreVars, stageVars, swimmers, matches, batchVars, store_runs>>

\* the human review step on a link that export_manual_review lists: the
\* reviewer sets the review workflow columns of the row
HumanReview ==
    /\ NotRunning
    /\ \E m \in matches, decision \in {"verified", "rejected"} :
          /\ m.verification_status = "manual_review"
          /\ matches' = (matches \ {m})
                \cup {[m EXCEPT !.verification_status = decision,
                                !.reviewer_notes = "checked",
                                !.reviewed_by = "coach",
                                !.reviewed_at = "reviewed"]}
    /\ UNCHANGED <<scoreVars, stageVars, runners, swimmers, batchVars, store_runs>>

\* process_all_runners lines 345-347, in a new process: the module loads the
\* cache from the shelve file
StartBatch ==
    /\ NotRunning
    /\ batch_runs < MaxBatchRuns
    /\ batch_runs' = batch_runs + 1
    /\ SEARCH_CACHE' = cache_file
    /\ batch' = Take(get_runners, RUNNER_LIMIT)
    /\ r_idx' = 1
    /\ pc' = IF Len(runners) = 0 THEN "done" ELSE "search"
    /\ urls' = << >>
    /\ cand' = NoCand
    /\ UNCHANGED <<scoreVars, stageVars, dbVars, cache_file, last_persist, store_runs>>

\* the end of one url's loop body: the next url, the next runner, or the end
Advance(rest) ==
    /\ cand' = NoCand
    /\ urls' = rest
    /\ IF rest # << >>
       THEN pc' = "fetch" /\ r_idx' = r_idx
       ELSE /\ r_idx' = r_idx + 1
            /\ pc' = IF r_idx + 1 > Len(batch) THEN "done" ELSE "search"

\* lines 350-351 after bing_search_async returned results
AfterSearch(results) ==
    IF HasNoneUrl(results)
    THEN pc' = "aborted" /\ UNCHANGED <<r_idx, urls, cand>>
    ELSE Advance(FilterUrls(results))

\* bing_search_async, query in SEARCH_CACHE
SearchCached ==
    /\ pc = "search"
    /\ LET query == build_search_query(batch[r_idx])
       IN /\ \E e \in 1..Len(SEARCH_CACHE) : SEARCH_CACHE[e].query = query
          /\ LET e == CHOOSE e \in 1..Len(SEARCH_CACHE) :
                          SEARCH_CACHE[e].query = query
             IN AfterSearch(SEARCH_CACHE[e].results)
    /\ UNCHANGED <<scoreVars, stageVars, dbVars, SEARCH_CACHE, cache_file, batch,
                   batch_runs, last_persist, store_runs>>

CachePut(cache, query, results) ==
    SelectSeq(cache, LAMBDA e : e.query # query)
    \o << [query |-> query, results |-> results] >>

\* bing_search_async, the agent answers; the shelve write is taken to succeed
SearchAgent ==
    /\ pc = "search"
    /\ LET query == build_search_query(batch[r_idx])
       IN /\ ~\E e \in 1..Len(SEARCH_CACHE) : SEARCH_CACHE[e].query = query
          /\ \E results \in SearchResults :
                /\ SEARCH_CACHE' = CachePut(SEARCH_CACHE, query, results)
                /\ cache_file' = CachePut(cache_file, query, results)
                /\ AfterSearch(results)
    /\ UNCHANGED <<scoreVars, stageVars, dbVars, batch, batch_runs, last_persist, store_runs>>

\* bing_search_async, the agent call raises: line 350 is outside the try
SearchRaises ==
    /\ pc = "search"
    /\ LET query == build_search_query(batch[r_idx])
       IN ~\E e \in 1..Len(SEARCH_CACHE) : SEARCH_CACHE[e].query = query
    /\ pc' = "aborted"
    /\ UNCHANGED <<scoreVars, stageVars, dbVars, SEARCH_CACHE, cache_file, batch, r_idx,
                   urls, cand, batch_runs, last_persist, store_runs>>

\* get_and_parse_candidate(url) returns a profile
FetchCandidate ==
    /\ pc = "fetch"
    /\ \E page \in CandidatePages :
          cand' = [NoCand EXCEPT
                      !.url = Head(urls),
                      !.candidate = [hometown |-> page.hometown,
                                     birth_year |-> 0,
                                     swim_team |-> page.swim_team],
                      !.sim = [name |-> page.name_ratio, hometown |-> 0,
                               team |-> page.team_ratio]]
    /\ pc' = "score"
    /\ UNCHANGED <<scoreVars, stageVars, dbVars, SEARCH_CACHE, cache_file, batch, r_idx,
                   urls, batch_runs, last_persist, store_runs>>

\* get_and_parse_candidate(url) raises (raise_for_status, timeout)
FetchRaises ==
    /\ pc = "fetch"
    /\ Advance(Tail(urls))
    /\ UNCHANGED <<scoreVars, stageVars, dbVars, SEARCH_CACHE, cache_file, batch,
                   batch_runs, last_persist, store_runs>>

\* lines 355-361: compute_match_score and the decision
ScoreCandidate ==
    /\ pc = "score"
    /\ LET res == compute_match_score(AGENT_NAME_WEIGHT, batch[r_idx],
                                      cand.candidate, cand.sim)
       IN cand' = [cand EXCEPT !.score = res.total,
                               !.explanation = res.explanation,
                               !.status = Decide(res.total)]
    /\ pc' = "upsert"
    /\ UNCHANGED <<scoreVars, stageVars, dbVars, SEARCH_CACHE, cache_file, batch, r_idx,
                   urls, batch_runs, last_persist, store_runs>>

\* line 362: upsert_swimmer(candidate) returns the merged key
UpsertSwimmer ==
    /\ pc = "upsert"
    /\ SwimmerIdOf(cand.url).kind # "error"
    /\ swimmers' = MergeSwimmer(swimmers, SwimmerIdOf(cand.url), cand.candidate,
                                cand.url)
    /\ cand' = [cand EXCEPT
                   !.swimmer_id = MergedSwimmerId(swimmers, SwimmerIdOf(cand.url))]
    /\ pc' = "update"
    /\ UNCHANGED <<scoreVars, stageVars, runners, matches, SEARCH_CACHE, cache_file, batch,
                   r_idx, urls, batch_runs, last_persist, store_runs>>

\* line 362: upsert_swimmer raises (ValueError of int(), or a database error
\* that is rolled back and re-raised); line 365 skips the url
UpsertSwimmerRaises ==
    /\ pc = "upsert"
    /\ Advance(Tail(urls))
    /\ UNCHANGED <<scoreVars, stageVars, dbVars, SEARCH_CACHE, cache_file, batch,
                   batch_runs, last_persist, store_runs>>

\* line 363: update_match_record; a database error is rolled back and logged
UpdateMatchRecord ==
    /\ pc = "update"
    /\ LET runner_id == batch[r_idx].runner_id
       IN \E db_ok \in BOOLEAN :
                /\ matches' = IF db_ok
                              THEN MergeMatch(matches, runner_id,
                                              cand.swimmer_id, cand.score,
                                              cand.status, cand.explanation)
                              ELSE matches
                /\ last_persist' =
                      [runner_id |-> runner_id, swimmer_id |-> cand.swimmer_id,
                       had_review |->
                          \E m \in PairRows(matches, runner_id,
                                            cand.swimmer_id) :
                             m.reviewed_by # "",
                       db_ok |-> db_ok]
    /\ Advance(Tail(urls))
    /\ UNCHANGED <<scoreVars, stageVars, runners, swimmers, SEARCH_CACHE, cache_file, batch,
                   batch_runs, store_runs>>

Next ==
    \/ StoreAthletes
    \/ UpdateRunnerFromAgentOutput
    \/ HumanReview
    \/ StartBatch
    \/ SearchCached
    \/ SearchAgent
    \/ SearchRaises
    \/ FetchCandidate
    \/ FetchRaises
    \/ ScoreCandidate
    \/ UpsertSwimmer
    \/ UpsertSwimmerRaises
    \/ UpdateMatchRecord

Spec == Init /\ [][Next]_vars

\* ----------------------------------------------- the scorer on its inputs
InitScore ==
    /\ sc_pc = "input"
    /\ sc_variant = "none"
    /\ sc_runner \in [hometown : RunnerHometowns, birth_year : RunnerBirthYears,
                      college_team : RunnerTeams]
    /\ sc_candidate \in [hometown : CandidateHometowns,
                         birth_year : CandidateBirthYears,
                         swim_team : CandidateTeams]
    /\ sc_sim \in [name : Ratios, hometown : FuzzySamples, team : FuzzySamples]
    /\ (~HometownRatioUsed(sc_runner.hometown, sc_candidate.hometown)
            => sc_sim.hometown = 0)
    /\ (~TeamRatioUsed(sc_runner.college_team, sc_candidate.swim_team)
            => sc_sim.team = 0)
    /\ sc_score = 0
    /\ sc_explanation = << >>
    /\ sc_status = "none"
    /\ InitPipeline
    /\ InitStagesOff

\* etl/ai_agent.py compute_match_score
ScoreAgent ==
    /\ sc_pc = "input"
    /\ LET res == compute_match_score(AGENT_NAME_WEIGHT, sc_runner, sc_candidate,
                                      sc_sim)
       IN /\ sc_score' = res.total
          /\ sc_explanation' = res.explanation
    /\ sc_pc' = "scored"
    /\ sc_variant' = "ai_agent"
    /\ UNCHANGED <<sc_runner, sc_candidate, sc_sim, sc_status, dbVars, stageVars, batchVars,
                   store_runs>>

\* etl/match.py compute_match_score
ScoreMatch ==
    /\ sc_pc = "input"
    /\ LET res == compute_match_score(MATCH_NAME_WEIGHT, sc_runner, sc_candidate,
                                      sc_sim)
       IN /\ sc_score' = res.total
          /\ sc_explanation' = res.explanation
    /\ sc_pc' = "scored"
    /\ sc_variant' = "match"
    /\ UNCHANGED <<sc_runner, sc_candidate, sc_sim, sc_status, dbVars, stageVars, batchVars,
                   store_runs>>

NextScore == ScoreAgent \/ ScoreMatch

SpecScore == InitScore /\ [][NextScore]_vars

\* ------------------------------------------- the decision step on a score
InitDecide ==
    /\ sc_pc = "scored"
    /\ sc_variant = "none"
    /\ sc_runner = NoRunner
    /\ sc_candidate = NoCandidate
    /\ sc_sim = NoSim
    /\ sc_score \in ScoreInputs
    /\ sc_explanation = << >>
    /\ sc_status = "none"
    /\ InitPipeline
    /\ InitStagesOff

DecideStatus ==
    /\ sc_pc = "scored"
    /\ sc_status' = Decide(sc_score)
    /\ sc_pc' = "decided"
    /\ UNCHANGED <<sc_variant, sc_runner, sc_candidate, sc_sim, sc_score,
                   sc_explanation, dbVars, stageVars, batchVars, store_runs>>

NextDecide == DecideStatus

SpecDecide == InitDecide /\ [][NextDecide]_vars

\* ----------------------------------------------- the fetchers, one host
InitFetch ==
    /\ f_pc = "idle"
    /\ f_variant \in {"improved", "classic"}
    /\ f_host \in Hosts
    /\ f_received = 0
    /\ f_since = NoPrevious
    /\ f_attempt = 0
    /\ f_cache = NoCache
    /\ f_log = << >>
    /\ f_result = "none"
    /\ f_page = NoPage
    /\ f_fetches = 0
    /\ f_start = 0
    /\ f_drivers = NoDrivers
    /\ InitLateOff
    /\ InitScoreOff
    /\ InitPipeline
    /\ InitTimeOff
    /\ InitExtractOff
    /\ InitClassOff

Request(strategy, gap, status, page) ==
    [strategy |-> strategy, gap |-> gap, status |-> status, page |-> page]

\* main / scrape_events: the next url of the same host
StartFetch ==
    /\ f_pc \in {"idle", "done"}
    /\ f_fetches < MaxFetches
    /\ f_fetches' = f_fetches + 1
    /\ f_pc' = "direct"
    /\ f_attempt' = 0
    /\ f_log' = << >>
    /\ f_result' = "none"
    /\ f_page' = NoPage
    /\ f_start' = f_received
    /\ UNCHANGED <<f_variant, f_host, f_received, f_since, f_cache, f_drivers>>
    /\ UNCHANGED othersOfFetch

\* requests_cache: the entry of the url expires (expire_after=3600)
CacheExpires ==
    /\ f_pc = "done"
    /\ f_cache.hit
    /\ f_cache' = NoCache
    /\ f_since' = NoPrevious
    /\ UNCHANGED <<f_pc, f_variant, f_host, f_received, f_attempt, f_log,
                   f_result, f_page, f_fetches, f_start, f_drivers>>
    /\ UNCHANGED othersOfFetch

\* one iteration of the loop of _try_requests_approach; a 200 response is
\* kept by requests_cache and served again without a request to the host
DirectAttempt ==
    /\ f_pc = "direct"
    /\ f_variant = "improved"
    /\ \E delay \in DirectDelays, cooldown \in Cooldowns :
        LET gap == Elapsed(f_since, delay)
            cached == f_cache.hit
            status == IF cached THEN 200 ELSE StatusOf(f_host, f_received)
            page == IF cached THEN f_cache.page ELSE PageOf(f_host, f_received)
            good == status = 200 /\ Substantive(page)
            attempt == f_attempt + 1
        IN /\ f_attempt' = attempt
           /\ f_received' = IF cached THEN f_received ELSE f_received + 1
           /\ f_log' = IF cached THEN f_log
                       ELSE Append(f_log, Request("direct", gap, status, page))
           /\ f_cache' = IF status = 200 THEN [hit |-> TRUE, page |-> page]
                         ELSE f_cache
           /\ f_since' = IF cached THEN gap
                         ELSE IF status = 403 THEN cooldown
                         ELSE 0
           /\ IF ~good /\ RetriesLeft(attempt)
              THEN /\ f_pc' = "direct"
                   /\ f_result' = "none"
                   /\ f_page' = NoPage
              ELSE /\ f_pc' = IF NeedsFallback(good) THEN "selenium" ELSE "done"
                   /\ f_result' = IF good THEN "markup" ELSE "none"
                   /\ f_page' = IF good THEN page ELSE NoPage
    /\ UNCHANGED <<f_variant, f_host, f_fetches, f_start, f_drivers>>
    /\ UNCHANGED othersOfFetch

\* _try_selenium_approach: driver.get(url) follows the last direct attempt
\* with no sleep between them
SeleniumApproach ==
    /\ f_pc = "selenium"
    /\ f_variant = "improved"
    /\ LET status == StatusOf(f_host, f_received)
           page == PageOf(f_host, f_received)
           good == status # 0 /\ ~SeleniumBlockedTitle(page.title)
       IN /\ f_received' = f_received + 1
          /\ f_log' = Append(f_log, Request("selenium", f_since, status, page))
          /\ f_since' = 0
          /\ f_pc' = "done"
          /\ f_result' = IF good THEN "markup" ELSE "exhausted"
          /\ f_page' = IF good THEN page ELSE NoPage
          /\ f_drivers' = DriverQuit(DriverStarted(f_drivers))
    /\ UNCHANGED <<f_variant, f_host, f_attempt, f_cache, f_fetches, f_start>>
    /\ UNCHANGED othersOfFetch

\* the statement of the driver set-up that raises WebDriverException:
\* webdriver.Chrome(...) itself, driver.execute_script(...) inside
\* _create_selenium_driver (scrape_tfrrs_improved only), or
\* driver.set_page_load_timeout(30) in the caller
SetupSteps(variant) ==
    IF variant = "improved" THEN {"launch", "execute_script", "set_page_load_timeout"}
    ELSE {"launch", "set_page_load_timeout"}

\* the sessions after the set-up raised at `step`: the finally clause quits
\* the driver only when the name `driver` of the fetching function is bound
AfterSetupError(drivers, step) ==
    CASE step = "launch" -> drivers
      [] step = "execute_script" -> DriverStarted(drivers)
      [] step = "set_page_load_timeout" -> DriverQuit(DriverStarted(drivers))

\* the driver set-up raises WebDriverException: no request is made
SeleniumRaises ==
    /\ f_pc = "selenium"
    /\ f_pc' = "done"
    /\ f_result' = "driver_error"
    /\ f_page' = NoPage
    /\ \E step \in SetupSteps(f_variant) :
          f_drivers' = AfterSetupError(f_drivers, step)
    /\ UNCHANGED <<f_variant, f_host, f_received, f_since, f_attempt, f_cache,
                   f_log, f_fetches, f_start>>
    /\ UNCHANGED othersOfFetch

\* TFRRSScraper._scrape_event_page lines 237-253: sleep, one request,
\* raise_for_status, look for the results table
ClassicRequest ==
    /\ f_pc = "direct"
    /\ f_variant = "classic"
    /\ LET gap == Elapsed(f_since, request_delay_seconds)
           status == StatusOf(f_host, f_received)
           page == PageOf(f_host, f_received)
       IN /\ f_attempt' = f_attempt + 1
          /\ f_received' = f_received + 1
          /\ f_log' = Append(f_log, Request("direct", gap, status, page))
          /\ f_since' = 0
          /\ IF status # 200
             THEN f_pc' = "done" /\ f_result' = "exhausted" /\ f_page' = NoPage
             ELSE IF page.has_table
             THEN f_pc' = "done" /\ f_result' = "markup" /\ f_page' = page
             ELSE f_pc' = "selenium" /\ f_result' = "none" /\ f_page' = NoPage
    /\ UNCHANGED <<f_variant, f_host, f_cache, f_fetches, f_start, f_drivers>>
    /\ UNCHANGED othersOfFetch

\* TFRRSScraper._get_page_with_selenium, called at line 257 right after the
\* direct response, and the table test of lines 258-263
ClassicSelenium ==
    /\ f_pc = "selenium"
    /\ f_variant = "classic"
    /\ LET status == StatusOf(f_host, f_received)
           page == PageOf(f_host, f_received)
           good == status # 0 /\ page.has_table
       IN /\ f_received' = f_received + 1
          /\ f_log' = Append(f_log, Request("selenium", f_since, status, page))
          /\ f_since' = 0
          /\ f_pc' = "done"
          /\ f_result' = IF good THEN "markup" ELSE "exhausted"
          /\ f_page' = IF good THEN page ELSE NoPage
          /\ f_drivers' = DriverQuit(DriverStarted(f_drivers))
    /\ UNCHANGED <<f_variant, f_host, f_attempt, f_cache, f_fetches, f_start>>
    /\ UNCHANGED othersOfFetch

NextFetch ==
    \/ StartFetch
    \/ CacheExpires
    \/ DirectAttempt
    \/ SeleniumApproach
    \/ SeleniumRaises
    \/ ClassicRequest
    \/ ClassicSelenium

SpecFetch == InitFetch /\ [][NextFetch]_vars

\* ------------------------------------------ the time parsers on their inputs
InitTime ==
    /\ t_pc = "input"
    /\ t_parser \in Parsers
    /\ t_text \in TimeTexts
    /\ t_result = TimeNone
    /\ t_kept = FALSE
    /\ InitLateOff
    /\ InitScoreOff
    /\ InitPipeline
    /\ InitFetchOff
    /\ InitExtractOff
    /\ InitClassOff

ParseStandardsLoader ==
    /\ t_pc = "input" /\ t_parser = "standards_loader"
    /\ t_pc' = "parsed"
    /\ t_result' = parse_time_to_seconds(t_text)
    /\ UNCHANGED <<t_parser, t_text, t_kept>>
    /\ UNCHANGED othersOfTime

ParseStandardsLoaderNew ==
    /\ t_pc = "input" /\ t_parser = "standards_loader_new"
    /\ t_pc' = "parsed"
    /\ t_result' = standards_loader_new_parse_time(t_text)
    /\ UNCHANGED <<t_parser, t_text, t_kept>>
    /\ UNCHANGED othersOfTime

ParseProcessor ==
    /\ t_pc = "input" /\ t_parser = "tfrrs_html_processor"
    /\ t_pc' = "parsed"
    /\ t_result' = processor_parse_time(t_text)
    /\ UNCHANGED <<t_parser, t_text, t_kept>>
    /\ UNCHANGED othersOfTime

ParseScraper ==
    /\ t_pc = "input" /\ t_parser = "scrape_tfrrs"
    /\ t_pc' = "parsed"
    /\ t_result' = scraper_parse_time(t_text)
    /\ UNCHANGED <<t_parser, t_text, t_kept>>
    /\ UNCHANGED othersOfTime

ParseExtractStandards ==
    /\ t_pc = "input" /\ t_parser = "extract_standards"
    /\ t_pc' = "parsed"
    /\ t_result' = time_to_seconds(t_text)
    /\ UNCHANGED <<t_parser, t_text, t_kept>>
    /\ UNCHANGED othersOfTime

ParseImproved ==
    /\ t_pc = "input" /\ t_parser = "scrape_tfrrs_improved"
    /\ t_pc' = "parsed"
    /\ t_result' = improved_parse_time(t_text)
    /\ UNCHANGED <<t_parser, t_text, t_kept>>
    /\ UNCHANGED othersOfTime

\* the caller's test of the parsed time
CallerStep ==
    /\ t_pc = "parsed"
    /\ t_pc' = "done"
    /\ t_kept' = CallerKeeps(t_parser, t_result)
    /\ UNCHANGED <<t_parser, t_text, t_result>>
    /\ UNCHANGED othersOfTime

NextTime ==
    \/ ParseStandardsLoader
    \/ ParseStandardsLoaderNew
    \/ ParseProcessor
    \/ ParseScraper
    \/ ParseExtractStandards
    \/ ParseImproved
    \/ CallerStep

SpecTime == InitTime /\ [][NextTime]_vars

\* ------------------------------------------------------- the row extractors
\* Page texts are sequences of one-character strings, as the time texts are.
Uppers == <<"A", "B", "C", "D", "E", "F", "G", "H", "I", "J", "K", "L", "M", "N", "O", "P", "Q", "R", "S", "T", "U", "V", "W", "X", "Y", "Z">>
Lowers == <<"a", "b", "c", "d", "e", "f", "g", "h", "i", "j", "k", "l", "m", "n", "o", "p", "q", "r", "s", "t", "u", "v", "w", "x", "y", "z">>
IsLetter(c) == \E i \in DOMAIN Uppers : c = Uppers[i] \/ c = Lowers[i]
LowerChar(c) ==
    IF \E i \in DOMAIN Uppers : c = Uppers[i]
    THEN Lowers[CHOOSE i \in DOMAIN Uppers : c = Uppers[i]] ELSE c
\* str.lower()
LowerText(s) == [i \in 1..Len(s) |-> LowerChar(s[i])]
\* sub in s
HasSub(s, sub) == \E i \in 1..(Len(s) + 1) : OccursAt(s, sub, i)
\* str.split() on white space
RECURSIVE Words(_)
Words(s) ==
    LET t == LStrip(s)
        sp == {i \in 1..Len(t) : t[i] = " "}
        cut == IF sp = {} THEN Len(t) + 1
               ELSE CHOOSE i \in sp : \A j \in sp : i <= j
    IN IF t = << >> THEN << >>
       ELSE <<SubSeq(t, 1, cut - 1)>> \o Words(SubSeq(t, cut, Len(t)))
\* ' '.join(parts)
RECURSIVE JoinSpace(_)
JoinSpace(parts) ==
    IF parts = << >> THEN << >>
    ELSE IF Len(parts) = 1 THEN parts[1]
    ELSE parts[1] \o <<" ">> \o JoinSpace(Tail(parts))
\* Body(e), with e evaluated once
Bind(e, Body(_)) == CHOOSE r \in {Body(v) : v \in {e}} : TRUE

\* bool(value) of a parser result: None and Decimal 0 are false
Truthy(result) == result.kind = "value" /\ (result.cs > 0 \/ result.more)

UNKNOWN_SCHOOL == <<"U", "n", "k", "n", "o", "w", "n", " ", "S", "c", "h", "o", "o", "l">>
MAX_RANK == 1000
MAX_LINKS == 50
MAX_ATHLETES_PER_EVENT == 500
MIN_CELLS == 4
MIN_NAME_LENGTH == 3
MIN_SCHOOL_LENGTH == 2
\* the key 'gender' is missing from the rows of parse_athlete_data
NoGender == "absent"

\* tfrrs_html_processor._determine_event_from_context
determine_event_from_context(text_content) ==
    LET t == LowerText(text_content)
    IN IF HasSub(t, <<"8", "0", "0">>) /\ HasSub(t, <<"m">>) THEN "800m"
       ELSE IF HasSub(t, <<"1", "5", "0", "0">>) \/ HasSub(t, <<"f", "i", "f", "t", "e", "e", "n">>) THEN "1500m"
       ELSE IF HasSub(t, <<"5", "0", "0", "0">>) \/ HasSub(t, <<"5", "k">>) THEN "5000m"
       ELSE IF HasSub(t, <<"1", "0", "0", "0", "0">>) \/ HasSub(t, <<"1", "0", "k">>) THEN "10000m"
       ELSE IF HasSub(t, <<"s", "t", "e", "e", "p", "l", "e", "c", "h", "a", "s", "e">>) \/ HasSub(t, <<"s", "t", "e", "e", "p", "l", "e">>)
       THEN "3000m_steeplechase"
       ELSE IF HasSub(t, <<"3", "0", "0", "0">>) THEN "3000m"
       ELSE IF HasSub(t, <<"m", "i", "l", "e">>) THEN "mile"
       ELSE "unknown_event"

\* the else branch of _determine_gender_from_context: no gender word found
GenderWordFound(text_content) ==
    LET t == LowerText(text_content)
    IN \/ HasSub(t, <<"w", "o", "m", "e", "n">>) \/ HasSub(t, <<"g", "i", "r", "l", "s">>)
       \/ HasSub(t, <<"m", "e", "n">>) \/ HasSub(t, <<"b", "o", "y", "s">>)

\* tfrrs_html_processor._determine_gender_from_context
determine_gender_from_context(text_content) ==
    LET t == LowerText(text_content)
    IN IF HasSub(t, <<"w", "o", "m", "e", "n">>) \/ HasSub(t, <<"g", "i", "r", "l", "s">>) THEN "F"
       ELSE IF HasSub(t, <<"m", "e", "n">>) \/ HasSub(t, <<"b", "o", "y", "s">>) THEN "M"
       ELSE "M"

\* TARGET_EVENTS, in the order normalize_event_name asks for them
TARGET_EVENTS ==
    << [name |-> "800m", variations |-> {<<"8", "0", "0">>, <<"8", "0", "0", "m">>, <<"8", "0", "0", " ", "m", "e", "t", "e", "r", "s">>}],
       [name |-> "mile",
        variations |-> {<<"m", "i", "l", "e">>, <<"t", "h", "e", " ", "m", "i", "l", "e">>, <<"1", " ", "m", "i", "l", "e">>, <<"1", "m", "i", "l", "e">>}],
       [name |-> "3000m", variations |-> {<<"3", "0", "0", "0">>, <<"3", "0", "0", "0", "m">>, <<"3", "0", "0", "0", " ", "m", "e", "t", "e", "r", "s">>}],
       [name |-> "5000m",
        variations |-> {<<"5", "0", "0", "0">>, <<"5", "0", "0", "0", "m">>, <<"5", "0", "0", "0", " ", "m", "e", "t", "e", "r", "s">>, <<"5", "k">>}],
       [name |-> "1500m", variations |-> {<<"1", "5", "0", "0">>, <<"1", "5", "0", "0", "m">>, <<"1", "5", "0", "0", " ", "m", "e", "t", "e", "r", "s">>}],
       [name |-> "10000m",
        variations |-> {<<"1", "0", "0", "0", "0">>, <<"1", "0", "0", "0", "0", "m">>, <<"1", "0", "0", "0", "0", " ", "m", "e", "t", "e", "r", "s">>, <<"1", "0", "k">>,
                        <<"1", "0", ",", "0", "0", "0">>, <<"1", "0", ",", "0", "0", "0", " ", "m", "e", "t", "e", "r", "s">>}],
       [name |-> "3000m_steeplechase",
        variations |-> {<<"s", "t", "e", "e", "p", "l", "e", "c", "h", "a", "s", "e">>, <<"s", "t", "e", "e", "p", "l", "e">>}] >>

is_target_event(event_name) ==
    \E k \in DOMAIN TARGET_EVENTS :
        \E v \in TARGET_EVENTS[k].variations :
            HasSub(LowerText(event_name), LowerText(v))

\* normalize_event_name; the last branch returns the name unchanged and is
\* not taken after is_target_event
normalize_event_name(event_name) ==
    LET hits == {k \in DOMAIN TARGET_EVENTS :
                    \E v \in TARGET_EVENTS[k].variations :
                        HasSub(LowerText(event_name), v)}
    IN IF hits = {} THEN "unnormalized"
       ELSE TARGET_EVENTS[CHOOSE k \in hits : \A j \in hits : k <= j].name

\* (?:Meters|Meter|m|Miles?|Mile) at i, ignoring case: the index of its last
\* character, 0 when it does not match
UNIT_WORDS == <<<<"m", "e", "t", "e", "r", "s">>, <<"m", "e", "t", "e", "r">>, <<"m">>, <<"m", "i", "l", "e", "s">>, <<"m", "i", "l", "e">>>>
UnitAt(s, i) ==
    LET hits == {k \in DOMAIN UNIT_WORDS : OccursAt(LowerText(s), UNIT_WORDS[k], i)}
    IN IF i < 1 \/ hits = {} THEN 0
       ELSE i + Len(UNIT_WORDS[CHOOSE k \in hits : \A j \in hits : k <= j]) - 1

\* \s*(unit) from i on
UnitAfterSpaces(s, i) ==
    LET k == CHOOSE j \in i..(Len(s) + 1) :
                 /\ j = Len(s) + 1 \/ s[j] # " "
                 /\ \A m \in i..(j - 1) : s[m] = " "
    IN UnitAt(s, k)

\* (?:\.\d+)?\s*(unit) from i on
EventTailAt(s, i) ==
    LET dec == IF i <= Len(s) /\ s[i] = "." /\ DigitRunEnd(s, i + 1) >= i + 1
               THEN UnitAfterSpaces(s, DigitRunEnd(s, i + 1) + 1) ELSE 0
    IN IF dec > 0 THEN dec ELSE UnitAfterSpaces(s, i)

\* \d{3} at i followed by the tail
ThreeDigitsAt(s, i) ==
    IF i + 2 <= Len(s) /\ \A k \in i..(i + 2) : IsDigit(s[k])
    THEN EventTailAt(s, i + 3) ELSE 0

\* ,?\d{3} from i on
GroupAt(s, i) ==
    LET comma == IF i <= Len(s) /\ s[i] = "," THEN ThreeDigitsAt(s, i + 1) ELSE 0
    IN IF comma > 0 THEN comma ELSE ThreeDigitsAt(s, i)

\* the pattern of line 132 at i: \d{1,2},?\d{3}(?:\.\d+)?\s*(unit)
LongEventAt(s, i) ==
    LET two == IF i + 1 <= Len(s) /\ IsDigit(s[i]) /\ IsDigit(s[i + 1])
               THEN GroupAt(s, i + 2) ELSE 0
        one == IF i <= Len(s) /\ IsDigit(s[i]) THEN GroupAt(s, i + 1) ELSE 0
    IN IF two > 0 THEN two ELSE one

\* the pattern of line 135 at i: \d+(?:\.\d+)?\s*(unit)
ShortEventAt(s, i) ==
    IF DigitRunEnd(s, i) >= i THEN EventTailAt(s, DigitRunEnd(s, i) + 1) ELSE 0

\* re.sub(r'meters?|m', 'm', s)
RECURSIVE SubMeters(_)
SubMeters(s) ==
    IF s = << >> THEN << >>
    ELSE IF OccursAt(s, <<"m", "e", "t", "e", "r", "s">>, 1)
    THEN <<"m">> \o SubMeters(SubSeq(s, 7, Len(s)))
    ELSE IF OccursAt(s, <<"m", "e", "t", "e", "r">>, 1)
    THEN <<"m">> \o SubMeters(SubSeq(s, 6, Len(s)))
    ELSE <<s[1]>> \o SubMeters(Tail(s))

\* lines 132-145: the event name of a section title
EventNameOfTitle(title_text) ==
    LET long == {i \in 1..Len(title_text) : LongEventAt(title_text, i) > 0}
        short == {i \in 1..Len(title_text) : ShortEventAt(title_text, i) > 0}
        first(S) == CHOOSE i \in S : \A j \in S : i <= j
        matched == IF long # {}
                   THEN SubSeq(title_text, first(long),
                               LongEventAt(title_text, first(long)))
                   ELSE SubSeq(title_text, first(short),
                               ShortEventAt(title_text, first(short)))
        plain == SelectSeq(LowerText(SelectSeq(matched, LAMBDA c : c # " ")),
                           LAMBDA c : c # ",")
    IN IF long # {} \/ short # {}
       THEN IF HasSub(plain, <<"m", "e", "t", "e", "r">>) \/ HasSub(plain, <<"m">>)
            THEN SubMeters(plain) ELSE plain
       ELSE Strip(Split(title_text, <<"(">>)[1])

\* lines 149-152 find a gender tag in the title
GenderTagFound(title_text) ==
    \/ HasSub(title_text, <<"(", "M", "e", "n", ")">>) \/ HasSub(title_text, <<"(", "m", "e", "n", ")">>)
    \/ HasSub(title_text, <<"(", "W", "o", "m", "e", "n", ")">>) \/ HasSub(title_text, <<"(", "w", "o", "m", "e", "n", ")">>)

\* tfrrs_html_processor_new.extract_event_info_from_context
extract_event_info_from_context(page) ==
    IF page.has_title
    THEN [event |-> EventNameOfTitle(Strip(page.title)),
          gender |-> IF HasSub(Strip(page.title), <<"(", "M", "e", "n", ")">>)
                        \/ HasSub(Strip(page.title), <<"(", "m", "e", "n", ")">>) THEN "M"
                     ELSE IF HasSub(Strip(page.title), <<"(", "W", "o", "m", "e", "n", ")">>)
                             \/ HasSub(Strip(page.title), <<"(", "w", "o", "m", "e", "n", ")">>) THEN "F"
                     ELSE "M"]
    ELSE [event |-> <<"U", "n", "k", "n", "o", "w", "n">>, gender |-> "M"]

\* a fragment of a page: a table row of cells ("tr"), a performance-list-row
\* of typed columns ("div"), or an athlete link whose parent element also
\* holds the mark ("link").  An empty place or team text stands for a missing
\* column as well.
Fragment(kind, ncells, place, name, team, time) ==
    [kind |-> kind, ncells |-> ncells, place |-> place, name |-> name,
     team |-> team, time |-> time]

\* the texts of the cells of a table row
CellTexts(f) ==
    IF f.ncells >= MIN_CELLS
    THEN <<Strip(f.place), Strip(f.name), Strip(f.team), Strip(f.time)>>
    ELSE <<Strip(f.place), Strip(f.name), Strip(f.time)>>

\* soup.get_text() of the page
RECURSIVE FragmentsText(_)
FragmentsText(frags) ==
    IF frags = << >> THEN << >>
    ELSE frags[1].place \o <<" ">> \o frags[1].name \o <<" ">>
         \o frags[1].team \o <<" ">> \o frags[1].time \o <<" ">>
         \o FragmentsText(Tail(frags))
PageText(page) == page.title \o <<" ">> \o FragmentsText(page.frags)

Athlete(rank, first_name, last_name, college_team, event, cs, gender, raw, src) ==
    [rank |-> rank, first_name |-> first_name, last_name |-> last_name,
     college_team |-> college_team, event |-> event, performance_time |-> cs,
     gender |-> gender, raw_performance |-> raw, src |-> src]

HEADER_WORDS == {<<"r", "a", "n", "k">>, <<"p", "l", "a", "c", "e">>, <<"#">>, <<"a", "t", "h", "l", "e", "t", "e">>, <<"n", "a", "m", "e">>}
IMPROVED_HEADER_WORDS == {<<"r", "a", "n", "k">>, <<"p", "l", "a", "c", "e">>, <<"#">>}

\* lines 173-216 of tfrrs_html_processor: the checks of a table row and the
\* row it appends
ProcessorCheckedRow(rank_text, name_text, school_text, time_text, performance_time, i, event, gender) ==
    LET digits == SelectSeq(rank_text, IsDigit)
        name_parts == Words(name_text)
    IN IF digits = << >> \/ NatOf(digits) <= 0 \/ NatOf(digits) > MAX_RANK
       THEN << >>
       ELSE IF ~(\E k \in 1..Len(name_text) : IsLetter(name_text[k]))
               \/ Len(name_text) < MIN_NAME_LENGTH THEN << >>
       ELSE IF performance_time.kind # "value" \/ performance_time.cs <= 0
       THEN << >>
       ELSE IF Len(name_parts) < 2 THEN << >>
       ELSE << Athlete(NatOf(digits), LowerText(name_parts[1]),
                       LowerText(JoinSpace(Tail(name_parts))),
                       IF Len(Strip(school_text)) < MIN_SCHOOL_LENGTH
                       THEN UNKNOWN_SCHOOL ELSE Strip(school_text),
                       event, performance_time.cs, gender, time_text, i) >>

\* lines 143-221 of tfrrs_html_processor on the table row frags[i]: the rows
\* it appends
ProcessorTableRow(frags, i, event, gender) ==
    IF frags[i].kind # "tr" \/ frags[i].ncells < MIN_CELLS THEN << >>
    ELSE Bind(CellTexts(frags[i]), LAMBDA cell_texts :
        IF \E h \in HEADER_WORDS : HasSub(LowerText(cell_texts[1]), h)
        THEN << >>
        ELSE IF ~Truthy(processor_parse_time(cell_texts[4]))
        THEN Bind(processor_parse_time(cell_texts[3]), LAMBDA performance_time :
                 ProcessorCheckedRow(cell_texts[1], cell_texts[2], cell_texts[4],
                                     cell_texts[3], performance_time, i, event,
                                     gender))
        ELSE Bind(processor_parse_time(cell_texts[4]), LAMBDA performance_time :
                 ProcessorCheckedRow(cell_texts[1], cell_texts[2], cell_texts[3],
                                     cell_texts[4], performance_time, i, event,
                                     gender)))

RECURSIVE ProcessorTableRows(_, _, _, _)
ProcessorTableRows(frags, i, event, gender) ==
    IF i > Len(frags) THEN << >>
    ELSE ProcessorTableRow(frags, i, event, gender)
         \o ProcessorTableRows(frags, i + 1, event, gender)

\* the text of the parent element of the athlete link of a fragment
LinkParentText(f) ==
    IF f.kind = "link" THEN f.name \o <<" ">> \o f.time ELSE f.name

\* re.findall(r'\d+:\d+\.\d+|\d+\.\d+', text)[0], << >> for no match
LinkTimeMatch(s) ==
    LET hits == {i \in 1..Len(s) : TimeDecimalAt(s, i) > 0}
        i0 == CHOOSE i \in hits : \A j \in hits : i <= j
    IN IF hits = {} THEN << >> ELSE SubSeq(s, i0, TimeDecimalAt(s, i0))

\* lines 229-270 on the athlete link of frags[i], n being the number of rows
\* found so far
ProcessorLinkRow(frags, i, event, gender, n) ==
    Bind(LinkTimeMatch(Strip(LinkParentText(frags[i]))), LAMBDA time_text :
    Bind(processor_parse_time(time_text), LAMBDA performance_time :
    Bind(Words(Strip(frags[i].name)), LAMBDA name_parts :
        IF Len(Strip(frags[i].name)) < MIN_NAME_LENGTH THEN << >>
        ELSE IF time_text = << >> THEN << >>
        ELSE IF ~(Truthy(performance_time) /\ performance_time.cs > 0)
        THEN << >>
        ELSE IF Len(name_parts) < 2 THEN << >>
        ELSE << Athlete(n + 1, LowerText(name_parts[1]),
                        LowerText(JoinSpace(Tail(name_parts))), UNKNOWN_SCHOOL,
                        event, performance_time.cs, gender, time_text, i) >>)))

RECURSIVE ProcessorLinkRows(_, _, _, _, _)
ProcessorLinkRows(frags, i, event, gender, athletes) ==
    IF i > Len(frags) \/ i > MAX_LINKS THEN athletes
    ELSE Bind(athletes \o ProcessorLinkRow(frags, i, event, gender,
                                           Len(athletes)),
              LAMBDA found :
                  ProcessorLinkRows(frags, i + 1, event, gender, found))

\* lines 272-283: the first row of every (first name, last name, time)
UniqueByNameTime(athletes) ==
    SelectSeq([i \in 1..Len(athletes) |-> [a |-> athletes[i], i |-> i]],
              LAMBDA e : ~\E j \in 1..(e.i - 1) :
                  /\ athletes[j].first_name = e.a.first_name
                  /\ athletes[j].last_name = e.a.last_name
                  /\ athletes[j].performance_time = e.a.performance_time)

\* the rows of a sequence of numbered rows
Rows(unique) == [i \in 1..Len(unique) |-> unique[i].a]

\* tfrrs_html_processor.parse_tfrrs_html_content
parse_tfrrs_html_content(page) ==
    Bind(PageText(page), LAMBDA page_text :
    Bind(determine_event_from_context(page_text), LAMBDA event :
    Bind(determine_gender_from_context(page_text), LAMBDA gender :
    Bind(ProcessorTableRows(page.frags, 1, event, gender), LAMBDA table_rows :
    Bind(ProcessorLinkRows(page.frags, 1, event, gender, table_rows),
         LAMBDA athletes :
             Bind(UniqueByNameTime(athletes), Rows))))))

\* re.search(r'\d+', text): the leftmost run of digits, << >> for no match
FirstDigits(s) ==
    LET hits == {i \in 1..Len(s) : IsDigit(s[i])}
        i0 == CHOOSE i \in hits : \A j \in hits : i <= j
    IN IF hits = {} THEN << >> ELSE SubSeq(s, i0, DigitRunEnd(s, i0))

\* lines 187-200 of tfrrs_html_processor_new: first and last name
SplitName(name_text) ==
    LET comma == Split(name_text, <<",">>)
        name_parts == Words(name_text)
    IN IF Contains(name_text, ",")
       THEN [first_name |-> Strip(SubSeq(name_text, Len(comma[1]) + 2,
                                         Len(name_text))),
             last_name |-> Strip(comma[1])]
       ELSE IF Len(name_parts) >= 2
       THEN [first_name |-> name_parts[1],
             last_name |-> JoinSpace(Tail(name_parts))]
       ELSE [first_name |-> name_text, last_name |-> << >>]

\* tfrrs_html_processor_new.extract_athlete_from_performance_row on frags[i]
extract_athlete_from_performance_row(frags, i, event_name, gender) ==
    IF frags[i].kind # "div" THEN << >>
    ELSE
    Bind(FirstDigits(Strip(frags[i].place)), LAMBDA rank_match :
    Bind(Strip(frags[i].name), LAMBDA name_text :
    Bind(SplitName(name_text), LAMBDA name :
    Bind(Strip(frags[i].time), LAMBDA time_text :
    Bind(processor_parse_time(time_text), LAMBDA performance_time :
        IF Len(name_text) < MIN_NAME_LENGTH THEN << >>
        ELSE IF performance_time.kind # "value" \/ performance_time.cs <= 0
        THEN << >>
        ELSE << Athlete(IF rank_match = << >> THEN 1 ELSE NatOf(rank_match),
                        LowerText(name.first_name), LowerText(name.last_name),
                        IF frags[i].team = << >> THEN UNKNOWN_SCHOOL
                        ELSE Strip(frags[i].team),
                        event_name, performance_time.cs, gender, time_text,
                        i) >>)))))

\* lines 320-330 of process_html_file: the rows of one performance list
RECURSIVE PerformanceRows(_, _, _, _, _)
PerformanceRows(frags, i, event_name, gender, athletes) ==
    IF i > Len(frags) \/ Len(athletes) >= MAX_ATHLETES_PER_EVENT THEN athletes
    ELSE Bind(athletes \o extract_athlete_from_performance_row(
                              frags, i, event_name, gender),
              LAMBDA found :
                  PerformanceRows(frags, i + 1, event_name, gender, found))

\* lines 332-337: the key f"{first_name}_{last_name}_{college_team}"
SchoolKey(a) ==
    a.first_name \o <<"_">> \o a.last_name \o <<"_">> \o a.college_team

UniqueByNameSchool(athletes) ==
    SelectSeq([i \in 1..Len(athletes) |-> [a |-> athletes[i], i |-> i]],
              LAMBDA e : ~\E j \in 1..(e.i - 1) :
                  SchoolKey(athletes[j]) = SchoolKey(e.a))

\* tfrrs_html_processor_new.process_html_file on a page of one section
process_html_file(page) ==
    Bind(extract_event_info_from_context(page), LAMBDA event_info :
        IF is_target_event(event_info.event)
        THEN Bind(normalize_event_name(event_info.event), LAMBDA event_name :
             Bind(PerformanceRows(page.frags, 1, event_name, event_info.gender,
                                  << >>),
                  LAMBDA athletes : Bind(UniqueByNameSchool(athletes), Rows)))
        ELSE << >>)

\* lines 225-289 of scrape_tfrrs_improved on the table row frags[i]
ImprovedTableRow(frags, i) ==
    IF frags[i].kind # "tr" \/ frags[i].ncells < MIN_CELLS THEN << >>
    ELSE
    Bind(CellTexts(frags[i]), LAMBDA cell_texts :
    Bind(SelectSeq(cell_texts[1], IsDigit), LAMBDA digits :
    Bind(improved_parse_time(cell_texts[4]), LAMBDA performance_time :
    Bind(Words(cell_texts[2]), LAMBDA name_parts :
        IF \E h \in IMPROVED_HEADER_WORDS : HasSub(LowerText(cell_texts[1]), h)
        THEN << >>
        ELSE IF digits = << >> THEN << >>
        ELSE IF ~(\E k \in 1..Len(cell_texts[2]) : IsLetter(cell_texts[2][k]))
        THEN << >>
        ELSE IF performance_time.kind # "value" THEN << >>
        ELSE IF Len(name_parts) < 2 THEN << >>
        ELSE << Athlete(NatOf(digits), LowerText(name_parts[1]),
                        LowerText(JoinSpace(Tail(name_parts))), cell_texts[3],
                        "unknown_event", performance_time.cs, NoGender,
                        cell_texts[4], i) >>))))

\* scrape_tfrrs_improved.parse_athlete_data
RECURSIVE parse_athlete_data(_, _)
parse_athlete_data(frags, i) ==
    IF i > Len(frags) THEN << >>
    ELSE ImprovedTableRow(frags, i) \o parse_athlete_data(frags, i + 1)

\* the pages given to the extractors
Titles ==
    {<<"8", "0", "0", " ", "M", "e", "t", "e", "r", "s", " ", "(", "M", "e", "n", ")">>, <<"1", ",", "5", "0", "0", " ", "M", "e", "t", "e", "r", "s", " ", "(", "W", "o", "m", "e", "n", ")">>, <<"8", "0", "0", " ", "M", "e", "t", "e", "r", "s">>, <<"R", "e", "s", "u", "l", "t", "s">>}
Fragments ==
    LET place_1 == <<"1">>
        place_0 == <<"0">>
        first_last == <<"J", "o", " ", "L", "i">>
        last_first == <<"L", "i", ",", " ", "J", "o">>
        single == <<"C", "h", "e", "r">>
        other == <<"A", "l", " ", "O", "x">>
        team == <<"Y", "a", "l", "e">>
        mark == <<"1", ":", "4", "8">>
        mark_decimal == <<"1", ":", "4", "8", ".", "0">>
        mark_wind == <<"1", ":", "4", "8", " ", "+", "1">>
        no_mark == <<"D", "N", "F">>
    IN {Fragment("tr", 4, p, n, team, mark_wind) :
           p \in {place_1, place_0}, n \in {first_last, single}}
       \cup {Fragment("tr", 4, place_1, first_last, team, no_mark),
             Fragment("tr", 4, place_1, other, team, mark_wind),
             Fragment("tr", 3, place_1, first_last, << >>, mark_wind)}
       \cup {Fragment("div", 0, p, n, team, mark) :
               p \in {place_1, << >>}, n \in {last_first, single}}
       \cup {Fragment("div", 0, place_1, last_first, << >>, mark),
             Fragment("link", 0, << >>, first_last, << >>, mark_decimal)}
Pages ==
    {[has_title |-> TRUE, title |-> t, frags |-> fs] :
        t \in Titles, fs \in UNION {[1..n -> Fragments] : n \in 0..MaxFragments}}
    \cup {[has_title |-> FALSE, title |-> << >>, frags |-> fs] :
            fs \in UNION {[1..n -> Fragments] : n \in 0..MaxFragments}}
Extractors == {"tfrrs_html_processor", "tfrrs_html_processor_new",
               "scrape_tfrrs_improved"}

\* --------------------------------------------- the extractors on their pages
InitExtract ==
    /\ x_pc = "input"
    /\ x_variant \in Extractors
    /\ x_page \in Pages
    /\ x_rows = << >>
    /\ InitLateOff
    /\ InitScoreOff
    /\ InitPipeline
    /\ InitFetchOff
    /\ InitTimeOff
    /\ InitClassOff

ParseTfrrsHtmlContent ==
    /\ x_pc = "input" /\ x_variant = "tfrrs_html_processor"
    /\ x_pc' = "done"
    /\ x_rows' = parse_tfrrs_html_content(x_page)
    /\ UNCHANGED <<x_variant, x_page>>
    /\ UNCHANGED othersOfExtract

ProcessHtmlFile ==
    /\ x_pc = "input" /\ x_variant = "tfrrs_html_processor_new"
    /\ x_pc' = "done"
    /\ x_rows' = process_html_file(x_page)
    /\ UNCHANGED <<x_variant, x_page>>
    /\ UNCHANGED othersOfExtract

ParseAthleteData ==
    /\ x_pc = "input" /\ x_variant = "scrape_tfrrs_improved"
    /\ x_pc' = "done"
    /\ x_rows' = parse_athlete_data(x_page.frags, 1)
    /\ UNCHANGED <<x_variant, x_page>>
    /\ UNCHANGED othersOfExtract

NextExtract ==
    \/ ParseTfrrsHtmlContent
    \/ ProcessHtmlFile
    \/ ParseAthleteData

SpecExtract == InitExtract /\ [][NextExtract]_vars

\* ------------------------------------------------------------ the classifier
\* extract_standards.COLOR_MAPPINGS with the default of line 305
COLOR_MAPPINGS(category) ==
    CASE category = "World Leading" -> "Dark_Green"
      [] category = "Internationally Ranked" -> "Green"
      [] category = "Nationally Competitive" -> "Yellow"
      [] category = "Development Potential" -> "Orange"
      [] OTHER -> "Red"

\* extract_standards.DISPLAY_ORDER with the default of line 306
DISPLAY_ORDER(category) ==
    CASE category = "World Leading" -> 1
      [] category = "Internationally Ranked" -> 2
      [] category = "Nationally Competitive" -> 3
      [] category = "Development Potential" -> 4
      [] OTHER -> 999

\* the categories in the order in which every ladder of standards_data lists
\* them
CATEGORIES == <<"World Leading", "Internationally Ranked",
                "Nationally Competitive", "Development Potential">>

\* the men's 200_Free_LCM ladder of create_manual_standards, in hundredths of
\* a second, after the same ladder with a first cutoff of 110.00
MEN_200_FREE_LCM_LOOSE == <<11000, 11300, 11650, 12000>>
MEN_200_FREE_LCM == <<10950, 11300, 11650, 12000>>

standards_data ==
    << [gender |-> "M", event |-> "200_Free_LCM", ladder |-> MEN_200_FREE_LCM],
       [gender |-> "M", event |-> "400_Free_LCM", ladder |-> <<23000, 23800, 24600, 25400>>],
       [gender |-> "M", event |-> "800_Free_LCM", ladder |-> <<48000, 49500, 51000, 52500>>],
       [gender |-> "M", event |-> "1500_Free_LCM", ladder |-> <<91500, 94500, 97500, 100500>>],
       [gender |-> "F", event |-> "200_Free_LCM", ladder |-> <<11900, 12350, 12800, 13250>>],
       [gender |-> "F", event |-> "400_Free_LCM", ladder |-> <<25000, 26000, 27000, 28000>>],
       [gender |-> "F", event |-> "800_Free_LCM", ladder |-> <<52500, 54500, 56500, 58500>>],
       [gender |-> "F", event |-> "1500_Free_LCM",
        ladder |-> <<102000, 106000, 110000, 114000>>] >>

\* extract_standards.create_manual_standards: the rows of time_standards
create_manual_standards ==
    {[gender |-> standards_data[e].gender,
      age_group |-> "Open",
      event |-> standards_data[e].event,
      category |-> CATEGORIES[c],
      cutoff_seconds |-> standards_data[e].ladder[c],
      color_code |-> COLOR_MAPPINGS(CATEGORIES[c]),
      display_order |-> DISPLAY_ORDER(CATEGORIES[c])] :
        e \in DOMAIN standards_data, c \in DOMAIN CATEGORIES}

\* the result of a classification: the fields category_assigned,
\* standard_time and time_differential of models.Classification
ClassResult(category, standard_time, time_differential) ==
    [category_assigned |-> category, standard_time |-> standard_time,
     time_differential |-> time_differential]
Unclassified == ClassResult("Unclassified", 0, 0)

\* the benchmarks of one (gender, age_group, event)
Benchmarks(gender, event, age_group) ==
    {s \in create_manual_standards :
        s.gender = gender /\ s.event = event /\ s.age_group = age_group}

\* classify(gender, event_key, age_group, time_seconds): of the benchmarks
\* the time meets, the one with the lowest cutoff
classify(gender, event, age_group, time_seconds) ==
    LET met == {s \in Benchmarks(gender, event, age_group) :
                   time_seconds <= s.cutoff_seconds}
        best == CHOOSE s \in met : \A o \in met : s.cutoff_seconds <= o.cutoff_seconds
    IN IF met = {} THEN Unclassified
       ELSE ClassResult(best.category, best.cutoff_seconds,
                        time_seconds - best.cutoff_seconds)

\* the inputs of the classifier: the times around every cutoff and the two
\* times 110.00 and 125.00
ClassTimes ==
    {11000, 12500}
    \cup UNION {{s.cutoff_seconds - ClassMargin, s.cutoff_seconds,
                 s.cutoff_seconds + ClassMargin} : s \in create_manual_standards}

\* ---------------------------------------------- the classifier on its inputs
InitClass ==
    /\ k_pc = "input"
    /\ k_input \in [gender : {"M", "F"},
                    event : {"200_Free_LCM", "400_Free_LCM", "800_Free_LCM",
                             "1500_Free_LCM", "5k_Run"},
                    age_group : {"Open", "Junior"},
                    time_seconds : ClassTimes]
    /\ k_result = "none"
    /\ InitLateOff
    /\ InitScoreOff
    /\ InitPipeline
    /\ InitFetchOff
    /\ InitTimeOff
    /\ InitExtractOff

Classify ==
    /\ k_pc = "input"
    /\ k_pc' = "done"
    /\ k_result' = classify(k_input.gender, k_input.event, k_input.age_group,
                            k_input.time_seconds)
    /\ UNCHANGED k_input
    /\ UNCHANGED othersOfClass

NextClass == Classify

SpecClass == InitClass /\ [][NextClass]_vars

\* ------------------------------------------------- the standards loader
\* a TimeStandard object of load_standards_from_csv; cutoff_seconds in
\* hundredths of a second
TimeStandard(event, category, cutoff_seconds) ==
    [gender |-> "M", age_group |-> "Open", event |-> event,
     category |-> category, cutoff_seconds |-> cutoff_seconds]

\* UniqueConstraint unique_standard
StandardKey(row) == <<row.gender, row.age_group, row.event, row.category>>

\* the constraints of time_standards on the rows of one flush into an empty
\* table: valid_standard_gender, positive_cutoff, unique_standard
InsertsAccepted(standards) ==
    /\ \A i \in 1..Len(standards) :
          /\ standards[i].gender \in {"M", "F"}
          /\ standards[i].cutoff_seconds > 0
    /\ \A i, j \in 1..Len(standards) :
          StandardKey(standards[i]) = StandardKey(standards[j]) => i = j

\* the table after clear_existing_standards committed its DELETE and the
\* INSERTs of the new standards failed: session.rollback() undoes the
\* INSERTs only
TableAfterFailedInsert(before) == {}

\* the standards a CSV file may give: two cutoffs for one key, a second tier
\* of the event, and a cutoff of "0:00"
StandardRows ==
    {TimeStandard("800m", "World Leading", 10500),
     TimeStandard("800m", "World Leading", 10800),
     TimeStandard("800m", "Development Potential", 12000),
     TimeStandard("Mile", "World Leading", 0)}

StandardLists == UNION {[1..n -> StandardRows] : n \in 1..MaxStandards}

InitLoad ==
    /\ l_pc = "idle"
    /\ l_standards = << >>
    /\ l_table = {}
    /\ l_result = "none"
    /\ l_loads = 0
    /\ InitScoreOff
    /\ InitPipeline
    /\ InitFetchOff
    /\ InitTimeOff
    /\ InitExtractOff
    /\ InitClassOff
    /\ InitSearchOff
    /\ InitCapOff

\* standards_loader.main: load_standards_from_csv returns a non-empty list
LoadStandardsFromCsv ==
    /\ l_pc = "idle"
    /\ l_loads < MaxLoads
    /\ l_loads' = l_loads + 1
    /\ l_pc' = "parsed"
    /\ l_standards' \in StandardLists
    /\ l_result' = "none"
    /\ UNCHANGED l_table
    /\ UNCHANGED othersOfLoad

\* load_standards_to_database(standards): clear_existing_standards deletes
\* and commits, or raises and rolls its DELETE back; then the new rows are
\* added and committed, or the commit raises and is rolled back
LoadStandardsToDatabase ==
    /\ l_pc = "parsed"
    /\ l_pc' = "idle"
    /\ \E clear_ok \in BOOLEAN :
          IF ~clear_ok
          THEN l_table' = l_table /\ l_result' = "clear_raised"
          ELSE IF InsertsAccepted(l_standards)
          THEN /\ l_table' = {l_standards[i] : i \in 1..Len(l_standards)}
               /\ l_result' = "loaded"
          ELSE /\ l_table' = TableAfterFailedInsert(l_table)
               /\ l_result' = "insert_raised"
    /\ UNCHANGED <<l_standards, l_loads>>
    /\ UNCHANGED othersOfLoad

NextLoad == LoadStandardsFromCsv \/ LoadStandardsToDatabase

SpecLoad == InitLoad /\ [][NextLoad]_vars

\* ------------------------------------------- the search cache, one process
\* The coroutines of one event loop that call bing_search_async.  A coroutine
\* runs without interruption up to its await (line 102) and from the await to
\* its return; other coroutines run while it waits for the executor.
QueryInCache(cache, query) == \E e \in 1..Len(cache) : cache[e].query = query
CacheGet(cache, query) ==
    cache[CHOOSE e \in 1..Len(cache) : cache[e].query = query].results

\* the queries of the callers
SearchQueries ==
    {build_search_query([first_name |-> "ann", last_name |-> "lee",
                         college_team |-> "Texas", hometown |-> ""]),
     build_search_query([first_name |-> "bo", last_name |-> "kim",
                         college_team |-> "", hometown |-> ""])}

Caller(at, query, results, calls) ==
    [pc |-> at, query |-> query, results |-> results, calls |-> calls]

InitSearch ==
    /\ s_callers = [c \in 1..MaxCallers |-> Caller("idle", << >>, << >>, 0)]
    /\ s_invoked = << >>
    /\ InitScoreOff
    /\ InitPipeline
    /\ InitFetchOff
    /\ InitTimeOff
    /\ InitExtractOff
    /\ InitClassOff
    /\ InitLoadOff
    /\ InitCapOff

\* lines 87-88: the query is in SEARCH_CACHE, the cached list is returned
CallCached ==
    \E c \in 1..MaxCallers, query \in SearchQueries :
        /\ s_callers[c].pc # "awaiting"
        /\ s_callers[c].calls < MaxCalls
        /\ QueryInCache(SEARCH_CACHE, query)
        /\ s_callers' = [s_callers EXCEPT ![c] =
                            Caller("returned", query,
                                   CacheGet(SEARCH_CACHE, query), @.calls + 1)]
        /\ UNCHANGED <<s_invoked, SEARCH_CACHE, cache_file>>
        /\ UNCHANGED othersOfSearch

\* lines 87-102: the query is not in SEARCH_CACHE, sync_agent_search is handed
\* to the executor and the coroutine waits
CallAgent ==
    \E c \in 1..MaxCallers, query \in SearchQueries :
        /\ s_callers[c].pc # "awaiting"
        /\ s_callers[c].calls < MaxCalls
        /\ ~QueryInCache(SEARCH_CACHE, query)
        /\ s_callers' = [s_callers EXCEPT ![c] =
                            Caller("awaiting", query, << >>, @.calls + 1)]
        /\ s_invoked' = Append(s_invoked, query)
        /\ UNCHANGED <<SEARCH_CACHE, cache_file>>
        /\ UNCHANGED othersOfSearch

\* lines 102-110: the agent answered; the result is cached and written to the
\* shelve file, a failure of the write is logged
AgentAnswers ==
    \E c \in 1..MaxCallers, results \in SearchResults, disk_ok \in BOOLEAN :
        /\ s_callers[c].pc = "awaiting"
        /\ SEARCH_CACHE' = CachePut(SEARCH_CACHE, s_callers[c].query, results)
        /\ cache_file' = IF disk_ok
                         THEN CachePut(cache_file, s_callers[c].query, results)
                         ELSE cache_file
        /\ s_callers' = [s_callers EXCEPT ![c] =
                            Caller("returned", @.query, results, @.calls)]
        /\ UNCHANGED s_invoked
        /\ UNCHANGED othersOfSearch

\* line 102: sync_agent_search raised, the await raises in the coroutine
AgentRaises ==
    \E c \in 1..MaxCallers :
        /\ s_callers[c].pc = "awaiting"
        /\ s_callers' = [s_callers EXCEPT ![c] =
                            Caller("raised", @.query, << >>, @.calls)]
        /\ UNCHANGED <<s_invoked, SEARCH_CACHE, cache_file>>
        /\ UNCHANGED othersOfSearch

NextSearch == CallCached \/ CallAgent \/ AgentAnswers \/ AgentRaises

SpecSearch == InitSearch /\ [][NextSearch]_vars

\* ------------------------------- process_html_file on several performance lists
\* A performance list of the page: the title of its section, the number of
\* its rows for which extract_athlete_from_performance_row returns an athlete,
\* and how many of those repeat the name and school of an earlier row.
PerformanceList(title, rows, repeated) ==
    [has_title |-> TRUE, title |-> title, rows |-> rows, repeated |-> repeated]

RowCounts ==
    {0, 1, MAX_ATHLETES_PER_EVENT - 1, MAX_ATHLETES_PER_EVENT,
     MAX_ATHLETES_PER_EVENT + 1}

PerformanceLists ==
    {PerformanceList(t, n, r) : t \in Titles, n \in RowCounts, r \in {0, 1}}

\* lines 320-329 with the counter reset for every list
RowsStoredPerList(count, rows) ==
    IF rows <= MAX_ATHLETES_PER_EVENT THEN rows ELSE MAX_ATHLETES_PER_EVENT

\* lines 320-329: the rows of one list that are appended when event_counts of
\* its key is count at the first row
RowsStored(count, rows) ==
    IF count + rows <= MAX_ATHLETES_PER_EVENT THEN rows
    ELSE MAX_ATHLETES_PER_EVENT - count

\* lines 332-337: the appended rows of a list that stay in unique_athletes;
\* the first athlete of the page repeats nobody
RowsKept(athletes, stored, repeated) ==
    IF athletes = 0 /\ stored > 0
    THEN stored - (IF repeated <= stored - 1 THEN repeated ELSE stored - 1)
    ELSE stored - (IF repeated <= stored THEN repeated ELSE stored)

CountAt(counts, key) == IF key \in DOMAIN counts THEN counts[key] ELSE 0
CountPlus(counts, key, n) ==
    [k \in DOMAIN counts \cup {key} |->
        IF k = key THEN CountAt(counts, key) + n ELSE counts[k]]

\* lines 295-345: event_counts, the number of athletes appended, and
\* final_counts after the lists from i on
RECURSIVE EventCounts(_, _, _)
EventCounts(lists, i, acc) ==
    IF i > Len(lists) THEN acc
    ELSE Bind(extract_event_info_from_context(lists[i]), LAMBDA event_info :
         IF ~is_target_event(event_info.event)
         THEN EventCounts(lists, i + 1, acc)
         ELSE Bind(<<normalize_event_name(event_info.event), event_info.gender>>,
                   LAMBDA event_key :
              Bind(RowsStored(CountAt(acc.event_counts, event_key),
                              lists[i].rows), LAMBDA stored :
                  EventCounts(lists, i + 1,
                      [event_counts |->
                           CountPlus(acc.event_counts, event_key, stored),
                       athletes |-> acc.athletes + stored,
                       final_counts |->
                           CountPlus(acc.final_counts, event_key,
                                     RowsKept(acc.athletes, stored,
                                              lists[i].repeated))]))))

InitCap ==
    /\ c_pc = "input"
    /\ performance_lists \in UNION {[1..n -> PerformanceLists] : n \in 0..MaxLists}
    /\ c_counts = << >>
    /\ InitScoreOff
    /\ InitPipeline
    /\ InitFetchOff
    /\ InitTimeOff
    /\ InitExtractOff
    /\ InitClassOff
    /\ InitLoadOff
    /\ InitSearchOff

\* tfrrs_html_processor_new.process_html_file
ProcessPerformanceLists ==
    /\ c_pc = "input"
    /\ c_pc' = "done"
    /\ c_counts' = EventCounts(performance_lists, 1,
                               [event_counts |-> << >>, athletes |-> 0,
                                final_counts |-> << >>])
    /\ UNCHANGED performance_lists
    /\ UNCHANGED othersOfCap

NextCap == ProcessPerformanceLists

SpecCap == InitCap /\ [][NextCap]_vars

\* ------------------------------------------------------------------ claims

\* C1: the decision step maps a score s to auto_verified when s >= 90, to
\* manual_review when 70 <= s < 90 and to no_match when s < 70, and to no
\* other status.
C1_DecisionThresholds ==
    sc_pc = "decided" =>
        /\ (sc_score >= 90 => sc_status = "auto_verified")
        /\ (sc_score >= 70 /\ sc_score < 90 => sc_status = "manual_review")
        /\ (sc_score < 70 => sc_status = "no_match")
        /\ sc_status \in {"auto_verified", "manual_review", "no_match"}

C1_Witness ==
    sc_pc = "decided" /\ sc_score = 89 /\ sc_status = "manual_review"

\* C2: a pair whose name ratio is below 75 scores total 0 whatever its
\* hometown, birth-year and team values are, and no bonus is recorded.
HasBonusToken(explanation) ==
    \E i \in 1..Len(explanation) :
        explanation[i][1] \in {"hometown_exact_bonus", "hometown_fuzzy_bonus",
                               "birth_year_exact_bonus",
                               "birth_year_off_by_one_bonus",
                               "school_fuzzy_bonus"}

C2_ShortCircuit ==
    (sc_pc = "scored" /\ sc_sim.name < 75) =>
        (sc_score = 0 /\ ~HasBonusToken(sc_explanation))

C2_Witness ==
    /\ sc_pc = "scored" /\ sc_sim.name = 74 /\ sc_score = 0
    /\ sc_runner.hometown = "Austin, TX" /\ sc_candidate.hometown = "austin, tx"
    /\ sc_runner.birth_year = BaseYear /\ sc_candidate.birth_year = BaseYear
    /\ sc_runner.college_team = "Texas" /\ sc_sim.team = 100

\* C3: the total returned by the scorer is an integer in 0..100, the range
\* the match_score column accepts.
C3_TotalInRange ==
    sc_pc = "scored" => sc_score \in 0..100

\* C4: for a name ratio >= 75 the total is floor(w * name_ratio + hometown
\* bonus + birth-year bonus + team bonus); hometown 20 exact / 10 fuzzy >= 80,
\* birth year 15 exact / 5 off by one, team 10 fuzzy >= 80.  A missing value
\* matches nothing.
C4_Weight == IF sc_variant = "ai_agent" THEN 9 ELSE 6

C4_Hometown ==
    IF sc_runner.hometown = "" \/ sc_candidate.hometown = "" THEN 0
    ELSE IF Lower(sc_runner.hometown) = Lower(sc_candidate.hometown) THEN 20
    ELSE IF sc_sim.hometown >= 80 THEN 10
    ELSE 0

C4_Birth ==
    IF sc_runner.birth_year = 0 \/ sc_candidate.birth_year = 0 THEN 0
    ELSE IF sc_runner.birth_year = sc_candidate.birth_year THEN 15
    ELSE IF sc_runner.birth_year - sc_candidate.birth_year \in {-1, 1} THEN 5
    ELSE 0

C4_Team ==
    IF sc_runner.college_team = "" \/ sc_candidate.swim_team = "" THEN 0
    ELSE IF sc_sim.team >= 80 THEN 10
    ELSE 0

\* floor(w * r + b) for w = C4_Weight / 10 is the largest integer t with
\* 10 * t <= C4_Weight * r + 10 * b
C4_TotalFormula ==
    (sc_pc = "scored" /\ sc_sim.name >= 75) =>
        LET x == C4_Weight * sc_sim.name
                 + 10 * (C4_Hometown + C4_Birth + C4_Team)
        IN 10 * sc_score <= x /\ x < 10 * (sc_score + 1)

C4_Witness ==
    /\ sc_pc = "scored" /\ sc_variant = "ai_agent" /\ sc_sim.name = 87
    /\ sc_runner.hometown = "Boston, MA" /\ sc_candidate.hometown = "Dallas, TX"
    /\ sc_sim.hometown = 80
    /\ sc_runner.birth_year = BaseYear /\ sc_candidate.birth_year = BaseYear - 1
    /\ sc_sim.team = 0
    /\ sc_score = 93

\* C5: running extraction-and-store again on the unchanged input leaves
\* exactly one stored runner per (first_name, last_name): no two rows of the
\* runners table have the same identity.
C5_OneRunnerPerIdentity ==
    \A i, j \in 1..Len(runners) :
        (runners[i].first_name = runners[j].first_name
            /\ runners[i].last_name = runners[j].last_name) => i = j

\* C6: when update_match_record runs for a pair that already has a link and
\* the database is available, the pair has exactly one link afterwards and
\* it carries the newly computed score, rationale and status.
C6_RescoreOverwrites ==
    [][(pc = "update"
            /\ PairRows(matches, batch[r_idx].runner_id, cand.swimmer_id) # {}
            /\ last_persist'.db_ok)
        => \E m \in matches' :
              /\ PairRows(matches', batch[r_idx].runner_id, cand.swimmer_id) = {m}
              /\ m.match_score = cand.score
              /\ m.match_explanation = cand.explanation
              /\ m.verification_status = cand.status]_vars

\* C7: update_match_record for a pair never changes the reviewer notes,
\* reviewed-by, reviewed-at and the reviewed status of the pair's link.
C7_ReviewPreserved ==
    [][pc = "update"
        => \A m \in PairRows(matches, batch[r_idx].runner_id, cand.swimmer_id) :
              m.reviewed_by # ""
              => \E n \in PairRows(matches', m.runner_id, m.swimmer_id) :
                    /\ n.reviewer_notes = m.reviewer_notes
                    /\ n.reviewed_by = m.reviewed_by
                    /\ n.reviewed_at = m.reviewed_at
                    /\ n.verification_status = m.verification_status]_vars

C7_Witness ==
    /\ last_persist.had_review
    /\ last_persist.db_ok
    /\ \E m \in PairRows(matches, last_persist.runner_id,
                          last_persist.swimmer_id) :
          m.reviewed_by = "coach" /\ m.verification_status = "verified"

\* C8: no two stored swimmers come from the same source url; a stored row is
\* keyed by the id derived from its url, and a url with no derivable id has
\* no stored row.
C8_OneSwimmerPerUrl ==
    /\ \A s, t \in swimmers : s.swimcloud_url = t.swimcloud_url => s = t
    /\ \A s \in swimmers :
          /\ SwimmerIdOf(s.swimcloud_url).kind = "id"
          /\ SwimmerIdOf(s.swimcloud_url).id = s.swimmer_id

\* C9: after the persist step of a pair, the pair's swimmer is stored if and
\* only if its link is stored, also when the link write failed.
C9_AllOrNothing ==
    last_persist # NoPersist =>
        ((\E s \in swimmers : s.swimmer_id = last_persist.swimmer_id)
            <=> PairRows(matches, last_persist.runner_id,
                         last_persist.swimmer_id) # {})

\* C10: a batch run that has ended has visited every one of its records: no
\* per-record failure ends the run before the last record.
C10_BatchCompletes ==
    (NotRunning /\ batch_runs > 0) => (pc = "done" /\ r_idx > Len(batch))

\* C11: against a host that answers 403 to its first N requests and 200 with
\* substantive content afterwards, the fetch of scrape_tfrrs_improved returns
\* markup exactly when N is at most the retry bound of 3 (no local driver
\* failure).
C11_RetryBound ==
    (f_pc = "done" /\ f_variant = "improved" /\ f_host.then = "ok"
        /\ f_fetches = 1 /\ f_result # "driver_error")
    => (f_result = "markup" <=> f_host.blocked <= MAX_RETRIES)

\* a request yielded the markup its strategy looks for
Yielded(variant, request) ==
    /\ request.status = 200
    /\ IF variant = "improved" THEN Substantive(request.page)
       ELSE request.page.has_table

MaxAttempts(variant) == IF variant = "improved" THEN MAX_RETRIES ELSE 1

MinInterval(variant) ==
    IF variant = "improved" THEN MIN_DIRECT_DELAY ELSE request_delay_seconds

\* C13: no two requests to the same host are issued closer together than the
\* configured minimum interval, the step from the last direct request to the
\* rendering fallback included.
C13_RateLimit ==
    \A i \in 1..Len(f_log) : f_log[i].gap >= MinInterval(f_variant)

\* C14: every markup the fetch of scrape_tfrrs_improved returns as a success
\* is substantive (a title element and more than 500 characters of text),
\* whichever strategy produced it.
C14_ReturnedSubstantive ==
    (f_variant = "improved" /\ f_result = "markup") => Substantive(f_page)

\* C15: extract returns at most one row for each (normalized first name,
\* normalized last name, canonical time) triple found on a page, however many
\* fragments of the page describe it.
C15_DedupByNameTime ==
    x_pc = "done"
    => \A i, j \in 1..Len(x_rows) :
          (/\ x_rows[i].first_name = x_rows[j].first_name
           /\ x_rows[i].last_name = x_rows[j].last_name
           /\ x_rows[i].performance_time = x_rows[j].performance_time)
          => i = j

\* C16: every row returned has a positive integer rank read from its row of
\* the page and a name of at least two white-space separated tokens, so that
\* first and last name are both non-empty (its time is a parsed one by the
\* construction of the rows).
C16_RowChecks ==
    x_pc = "done"
    => \A i \in 1..Len(x_rows) :
          LET r == x_rows[i]
              f == x_page.frags[r.src]
          IN /\ r.rank >= 1
             /\ FirstDigits(f.place) # << >>
             /\ r.rank = NatOf(FirstDigits(f.place))
             /\ Len(Words(f.name)) >= 2
             /\ r.first_name # << >>
             /\ r.last_name # << >>

\* the event of a page is resolved by the extractor from the title or the text
EventResolved(variant, page) ==
    CASE variant = "tfrrs_html_processor" ->
            determine_event_from_context(PageText(page)) # "unknown_event"
      [] variant = "tfrrs_html_processor_new" ->
            page.has_title /\ is_target_event(EventNameOfTitle(Strip(page.title)))
      [] OTHER -> FALSE

\* the gender of a page is resolved by the extractor from the title or the text
GenderResolved(variant, page) ==
    CASE variant = "tfrrs_html_processor" -> GenderWordFound(PageText(page))
      [] variant = "tfrrs_html_processor_new" ->
            page.has_title /\ GenderTagFound(Strip(page.title))
      [] OTHER -> FALSE

\* C17: when the event or the gender of a section cannot be resolved from its
\* title or page text, its rows carry an unknown sentinel for that attribute,
\* never a concrete value.
C17_UnknownSentinel ==
    x_pc = "done"
    => \A i \in 1..Len(x_rows) :
          /\ ~EventResolved(x_variant, x_page)
                => x_rows[i].event \in {"unknown_event", "Unknown"}
          /\ ~GenderResolved(x_variant, x_page)
                => x_rows[i].gender \notin {"M", "F"}

\* the H:MM:SS and M:SS(.ss) shapes of a time text and the seconds they denote
IsHMS(text) ==
    LET parts == Split(text, <<":">>)
    IN Len(parts) = 3 /\ \A i \in 1..3 : AllDigits(parts[i])

HMSCentiseconds(text) ==
    LET parts == Split(text, <<":">>)
    IN (SECONDS_PER_HOUR * NatOf(parts[1]) + SECONDS_PER_MINUTE * NatOf(parts[2])
        + NatOf(parts[3])) * 100

IsMS(text) ==
    LET parts == Split(text, <<":">>)
        sec == IF Len(parts) = 2 THEN Split(parts[2], <<".">>) ELSE << >>
    IN /\ Len(parts) = 2
       /\ AllDigits(parts[1])
       /\ Len(sec) \in {1, 2}
       /\ AllDigits(sec[1])
       /\ Len(sec) = 2 => AllDigits(sec[2]) /\ Len(sec[2]) <= 2

MSCentiseconds(text) ==
    LET parts == Split(text, <<":">>)
        sec == Split(parts[2], <<".">>)
        frac == IF Len(sec) = 2 THEN sec[2] ELSE << >>
    IN SECONDS_PER_MINUTE * NatOf(parts[1]) * 100 + NatOf(sec[1]) * 100
       + (IF Len(frac) = 1 THEN NatOf(frac) * 10 ELSE NatOf(frac))

NoNumericPattern(text) == \A i \in 1..Len(text) : ~IsDigit(text[i])

\* C18: the time parsers of standards_loader, tfrrs_html_processor and
\* scrape_tfrrs convert an H:MM:SS text to 3600*H + 60*MM + SS seconds and an
\* M:SS(.ss) text to 60*M + SS.ss seconds at two decimals ("1:48.23" gives
\* 108.23, "34:00:00" gives 122400.00), and give an error for the empty
\* string and for a text with no numeric pattern.
C18_ParseTime ==
    (t_pc # "input"
        /\ t_parser \in {"standards_loader", "tfrrs_html_processor", "scrape_tfrrs"})
    => /\ IsHMS(t_text) => t_result = TimeValue(HMSCentiseconds(t_text))
       /\ IsMS(t_text) => t_result = TimeValue(MSCentiseconds(t_text))
       /\ NoNumericPattern(t_text) => t_result.kind # "value"

\* C19: on an empty text or a text with no numeric pattern every time parser
\* returns an error or absent result, never a number, and no caller keeps
\* such an input as a time.
C19_NoZeroDefault ==
    (t_pc # "input" /\ NoNumericPattern(t_text))
    => t_result.kind # "value" /\ ~t_kept

\* C20: for the benchmarks of one (gender, age_group, event), classify gives a
\* time the most elite tier whose cutoff it meets or betters (time <= cutoff)
\* and Unclassified when the time exceeds every cutoff; on the men's
\* 200_Free_LCM ladder 110.00 is Internationally Ranked and 125.00 is
\* Unclassified.
C20_Classify ==
    k_pc = "done"
    => LET bs == Benchmarks(k_input.gender, k_input.event, k_input.age_group)
           t == k_input.time_seconds
           mens200 == k_input.gender = "M" /\ k_input.event = "200_Free_LCM"
                      /\ k_input.age_group = "Open"
       IN /\ (k_result = Unclassified) <=> (\A b \in bs : t > b.cutoff_seconds)
          /\ k_result # Unclassified
                => \E b \in bs :
                      /\ b.category = k_result.category_assigned
                      /\ b.cutoff_seconds = k_result.standard_time
                      /\ t <= b.cutoff_seconds
                      /\ k_result.time_differential = t - b.cutoff_seconds
                      /\ \A o \in bs :
                            o.display_order < b.display_order
                                => t > o.cutoff_seconds
          /\ (mens200 /\ t = 11000)
                => k_result.category_assigned = "Internationally Ranked"
          /\ (mens200 /\ t = 12500) => k_result = Unclassified

C20_Witness ==
    /\ k_pc = "done"
    /\ k_input = [gender |-> "M", event |-> "200_Free_LCM",
                  age_group |-> "Open", time_seconds |-> 11000]
    /\ k_result = ClassResult("Internationally Ranked", 11300, 0 - 300)

\* the order no_match < manual_review < auto_verified of the statuses
StatusRank(status) ==
    CASE status = "no_match" -> 0
      [] status = "manual_review" -> 1
      [] status = "auto_verified" -> 2

\* C21: the decision policy is monotonic: for any two scores a < b the status
\* decided for a is never more verified than the status decided for b, under
\* the order no_match < manual_review < auto_verified.
C21_Monotonic ==
    sc_pc = "decided"
    => \A other \in ScoreInputs :
          /\ other < sc_score => StatusRank(Decide(other)) <= StatusRank(sc_status)
          /\ sc_score < other => StatusRank(sc_status) <= StatusRank(Decide(other))

C21_Witness ==
    sc_pc = "decided" /\ sc_score = MATCH_THRESHOLD - 1 /\ sc_status = "manual_review"

\* C22: a bonus (hometown, birth year, team) is added to the total only if
\* both the runner and the candidate have a non-empty value for that field;
\* when either side's value is missing the bonus is 0 and no token for it
\* appears in the rationale.
C22_BonusNeedsBothSides ==
    (sc_pc = "scored" /\ ~NameRejected(sc_sim.name))
    => LET both_hometown == sc_runner.hometown # "" /\ sc_candidate.hometown # ""
           both_birth == sc_runner.birth_year # 0 /\ sc_candidate.birth_year # 0
           both_team == sc_runner.college_team # "" /\ sc_candidate.swim_team # ""
           weight == IF sc_variant = "ai_agent" THEN AGENT_NAME_WEIGHT
                     ELSE MATCH_NAME_WEIGHT
           bonuses ==
               (IF both_hometown
                THEN HometownBonus(sc_runner.hometown, sc_candidate.hometown,
                                   sc_sim.hometown) ELSE 0)
               + (IF both_birth
                  THEN BirthBonus(sc_runner.birth_year, sc_candidate.birth_year)
                  ELSE 0)
               + (IF both_team
                  THEN SchoolBonus(sc_runner.college_team, sc_candidate.swim_team,
                                   sc_sim.team) ELSE 0)
       IN /\ sc_score = TotalScore(weight, sc_sim.name, bonuses)
          /\ ~both_hometown => ~InExplanation("hometown", sc_explanation)
          /\ ~both_birth => ~InExplanation("birth_year", sc_explanation)
          /\ ~both_team => ~InExplanation("school", sc_explanation)

C22_Witness ==
    /\ sc_pc = "scored" /\ sc_variant = "match" /\ sc_sim.name = 100
    /\ sc_runner.hometown = "Austin, TX" /\ sc_candidate.hometown = "austin, tx"
    /\ sc_runner.birth_year = 0 /\ sc_candidate.birth_year = BaseYear
    /\ sc_runner.college_team = "Texas" /\ sc_candidate.swim_team = ""
    /\ sc_score = 80
    /\ Len(sc_explanation) = 3

\* the two sides of a dual-value text "A / B"
DualSides(text) == Split(Strip(text), <<" ", "/", " ">>)

\* the parser of the loader that ran
LoaderParse(parser, text) ==
    IF parser = "standards_loader" THEN parse_time_to_seconds(text)
    ELSE standards_loader_new_parse_time(text)

\* C23: for a dual-value input "A / B" the result of the loaders' time parser
\* is the canonical seconds of the side named by the dual-format selector:
\* parse_time(A) with the selector set to first, parse_time(B) with it set to
\* second.  The parsers take no selector, so the result has to be right for
\* either setting.
C23_DualSelector ==
    (/\ t_pc # "input"
     /\ t_parser \in {"standards_loader", "standards_loader_new"}
     /\ Len(DualSides(t_text)) = 2)
    => \A selector \in {"first", "second"} :
          t_result = LoaderParse(t_parser,
                                 IF selector = "first" THEN DualSides(t_text)[1]
                                 ELSE DualSides(t_text)[2])

\* C24: every rendering session the fetcher starts is torn down before the
\* fetch returns, on every exit path: success, a page judged blocked, a
\* timeout, and an error raised while the driver is being set up.
C24_SessionsTornDown ==
    f_pc = "done" => f_drivers.quit = f_drivers.started

\* C25: the matched-on field set stored with a link contains 'hometown'
\* (respectively 'birth_year', 'school') if and only if the scorer awarded a
\* non-zero hometown (respectively birth-year, team) bonus for that pair, and
\* contains 'name' if and only if scoring was not short-circuited by the name
\* threshold.
C25_MatchedOnFields ==
    [][pc = "update"
        => \A m \in matches' \ matches :
              LET runner == batch[r_idx]
                  fields == {m.matched_on_fields[i] :
                                i \in 1..Len(m.matched_on_fields)}
                  scored == ~NameRejected(cand.sim.name)
              IN /\ "name" \in fields <=> scored
                 /\ "hometown" \in fields
                       <=> (scored /\ HometownBonus(runner.hometown,
                                                    cand.candidate.hometown,
                                                    cand.sim.hometown) # 0)
                 /\ "birth_year" \in fields
                       <=> (scored /\ BirthBonus(runner.birth_year,
                                                 cand.candidate.birth_year) # 0)
                 /\ "school" \in fields
                       <=> (scored /\ SchoolBonus(runner.college_team,
                                                  cand.candidate.swim_team,
                                                  cand.sim.team) # 0)]_vars

C25_Witness ==
    /\ \E m \in matches : m.matched_on_fields = <<"name", "hometown">>
    /\ \E m \in matches : m.matched_on_fields = <<"name", "school">>
    /\ \E m \in matches : m.matched_on_fields = << >>

\* C26: for each candidate of a runner the steps happen in the order fetch,
\* extract, store-candidate, score, decide, persist-link: a candidate that
\* has been scored has been stored before, and the link is persisted last,
\* after the candidate is fetched, scored, decided and stored.
C26_StepOrder ==
    /\ cand.status # "none" => cand.swimmer_id # 0
    /\ pc = "update"
          => (cand.url # << >> /\ cand.status # "none" /\ cand.swimmer_id # 0)

\* C27: when the upsert of a link fails with a persistence conflict, that
\* single upsert is retried, not the whole pipeline of the runner: the step
\* after the failed upsert is the upsert of the same link again, so that the
\* link with the new score is eventually stored.
C27_ConflictRetried ==
    [][(pc = "update" /\ ~last_persist'.db_ok)
        => (pc' = "update" /\ cand' = cand /\ urls' = urls /\ r_idx' = r_idx)]_vars

\* C28: load_standards_to_database replaces the stored standards
\* all-or-nothing: when inserting the new standards fails (two rows with the
\* same gender, age_group, event and category, say), the standards stored
\* before the call are still stored after it.
C28_ReplaceAllOrNothing ==
    [][(l_pc = "parsed" /\ l_result' # "loaded") => l_table' = l_table]_vars

\* C29: under any interleaving of bing_search_async calls in one process the
\* remote search agent is invoked at most once per distinct query string:
\* once a query's result is in the cache every later call for that query
\* returns the cached list without a remote call, also when writing the cache
\* to disk failed.
C29_OneAgentCallPerQuery ==
    \A query \in SearchQueries :
        Cardinality({i \in 1..Len(s_invoked) : s_invoked[i] = query}) <= 1

\* C30: process_html_file returns at most MAX_ATHLETES_PER_EVENT (500)
\* athletes for each (event, gender) key, however many performance lists of
\* the page belong to that event and however many rows they contain.
C30_CapPerEventKey ==
    c_pc = "done"
    => \A key \in DOMAIN c_counts.final_counts :
          c_counts.final_counts[key] <= MAX_ATHLETES_PER_EVENT

\* two lists of one key, the first below the cap, together above it, and the
\* key returned with exactly MAX_ATHLETES_PER_EVENT athletes
C30_Witness ==
    /\ c_pc = "done"
    /\ Len(performance_lists) = 2
    /\ performance_lists[1].title # performance_lists[2].title
    /\ performance_lists[1].rows = MAX_ATHLETES_PER_EVENT - 1
    /\ performance_lists[2].rows = MAX_ATHLETES_PER_EVENT + 1
    /\ DOMAIN c_counts.final_counts = {<<"800m", "M">>}
    /\ c_counts.final_counts[<<"800m", "M">>] = MAX_ATHLETES_PER_EVENT

====
